---------------------------- MODULE Spec2Model ----------------------------
(***************************************************************************)
(* A state-machine model of the WebGPU Earth viewer (src/src/main.ts) and  *)
(* of the earlier single-pass revision of the same program                 *)
(* (src/unnamed/part_002).                                                 *)
(*                                                                         *)
(* Numbers.  JavaScript numbers are modelled in fixed point:               *)
(*   - lengths, matrix entries, sines and cosines in thousandths           *)
(*     (Scale = 1000, so 1.5 is 1500);                                     *)
(*   - angles in milliradians (pi/2 is 1571, a mouse pixel is 0.01 rad =   *)
(*     10, one auto-rotation step is 0.001 rad = 1);                       *)
(*   - the clock in milliseconds since the start of 1970 (UTC);            *)
(*   - solar longitude and declination in arc-seconds.                     *)
(* A division whose divisor is 0 yields the IEEE results NaN / Infinity,   *)
(* kept as tagged values (see JsDiv).                                      *)
(***************************************************************************)
EXTENDS Integers, Sequences, FiniteSets, TLC

\* ------------------------------------------------------------------ bounds
\* Frames rendered, clock ticks, input events and resize events in one run.
MaxFrames == 2
MaxTicks == 1
MaxInputs == 2
MaxCameraInputs == 3

\* ------------------------------------------------- fixed-point conventions
Scale == 1000
HalfPi == 1571
Pi == 2 * HalfPi
TwoPi == 4 * HalfPi

Abs(a) == IF a < 0 THEN -a ELSE a
Sgn(a) == IF a < 0 THEN -1 ELSE IF a > 0 THEN 1 ELSE 0
Min(a, b) == IF a < b THEN a ELSE b
Max(a, b) == IF a > b THEN a ELSE b

\* Quotient rounded toward zero (d # 0).
Quot(n, d) == Sgn(n) * Sgn(d) * (Abs(n) \div Abs(d))

\* Product of two fixed-point numbers.
Mul(a, b) == Quot(a * b, Scale)

\* floor(sqrt(n)) by bisection.
RECURSIVE IsqrtIter(_, _, _)
IsqrtIter(n, lo, hi) ==
    IF lo = hi THEN lo
    ELSE LET mid == (lo + hi + 1) \div 2
         IN  IF mid * mid <= n THEN IsqrtIter(n, mid, hi) ELSE IsqrtIter(n, lo, mid - 1)
Isqrt(n) == IsqrtIter(n, 0, Min(n, 46340))

\* Math.sin on [0, pi] (Bhaskara's rational approximation, exact at 0, pi/2, pi).
SinHalf(x) == LET p == x * (Pi - x)
              IN  (16 * p) \div ((5 * Pi * Pi - 4 * p) \div Scale)

\* Math.sin / Math.cos of an angle in milliradians, result in thousandths.
Sin(a) == LET x == a % TwoPi
          IN  IF x <= Pi THEN SinHalf(x) ELSE -SinHalf(x - Pi)

Cos(a) == Sin(a + HalfPi)


\* ------------------------------------------------------- IEEE-754 division
\* A JavaScript number that may be NaN or an infinity.
Num(v) == [kind |-> "num", v |-> v]
NaN == [kind |-> "nan", v |-> 0]
Infinity(s) == [kind |-> "inf", v |-> s]

\* a / b on finite fixed-point operands: 0/0 is NaN, a/0 is +-Infinity.
JsDiv(a, b) == IF b = 0
               THEN (IF a = 0 THEN NaN ELSE Infinity(Sgn(a)))
               ELSE Num(Quot(a * Scale, b))

\* (v + 1.0) * 0.5 and (1.0 - v) * 0.5 keep NaN and the infinities.
HalfOfOnePlus(n) == IF n.kind = "num" THEN Num((n.v + Scale) \div 2) ELSE n
HalfOfOneMinus(n) == IF n.kind = "num" THEN Num((Scale - n.v) \div 2)
                     ELSE IF n.kind = "inf" THEN Infinity(-n.v) ELSE n

\* a > lo && a < hi: every comparison with NaN is false.
JsBetween(n, lo, hi) == n.kind = "num" /\ n.v > lo /\ n.v < hi

\* ---------------------------------------------------------------- matrices
\* Column-major 4x4 matrices: JavaScript index k is index k + 1 here.
ZeroMatrix == <<0, 0, 0, 0,  0, 0, 0, 0,  0, 0, 0, 0,  0, 0, 0, 0>>

multiplyMat4(a, b) ==
    <<>> \o [n \in 1..16 |->
        LET i == (n - 1) % 4
            j == (n - 1) \div 4
        IN  Mul(a[i + 1], b[j * 4 + 1]) + Mul(a[i + 5], b[j * 4 + 2])
            + Mul(a[i + 9], b[j * 4 + 3]) + Mul(a[i + 13], b[j * 4 + 4])]

\* A different rotationXMatrix: sine and cosine have changed places.
rotationXMatrixSwapped(angle) ==
    LET c == Sin(angle)
        s == Cos(angle)
    IN  <<Scale, 0, 0, 0,  0, c, s, 0,  0, -s, c, 0,  0, 0, 0, Scale>>

rotationXMatrix(angle) ==
    LET c == Cos(angle)
        s == Sin(angle)
    IN  <<Scale, 0, 0, 0,  0, c, s, 0,  0, -s, c, 0,  0, 0, 0, Scale>>

rotationYMatrix(angle) ==
    LET c == Cos(angle)
        s == Sin(angle)
    IN  <<c, 0, -s, 0,  0, Scale, 0, 0,  s, 0, c, 0,  0, 0, 0, Scale>>

translationMatrix(tx, ty, tz) ==
    <<Scale, 0, 0, 0,  0, Scale, 0, 0,  0, 0, Scale, 0,  tx, ty, tz, Scale>>

\* The perspective matrix of getMVPMatrix: fov pi/4, near 0.1, far 100.
Fov == Pi \div 4
Near == Scale \div 10
Far == 100 * Scale
ProjectionMatrix(aspect) ==
    LET f == Quot(Cos(Fov \div 2) * Scale, Sin(Fov \div 2))
    IN  <<Quot(f * Scale, aspect), 0, 0, 0,
          0, f, 0, 0,
          0, 0, Quot((Far + Near) * Scale, Near - Far), -Scale,
          0, 0, Quot(2 * Mul(Far, Near) * Scale, Near - Far), 0>>

\* The view matrix of getMVPMatrix: translate * (rotX * rotY).
ViewMatrix(pitch, yaw, distance) ==
    LET rotY == rotationYMatrix(yaw)
        rotX == rotationXMatrix(pitch)
        translate == translationMatrix(0, 0, -distance)
        rotation == multiplyMat4(rotX, rotY)
    IN  multiplyMat4(translate, rotation)

\* getMVPMatrix for a canvas of w x h pixels and the given camera.
MVPMatrix(w, h, pitch, yaw, distance) ==
    IF w = 0 \/ h = 0
    THEN ZeroMatrix
    ELSE LET aspect == Quot(w * Scale, h)
         IN  multiplyMat4(ProjectionMatrix(aspect), ViewMatrix(pitch, yaw, distance))

\* projectToScreen: the sun's screen position and its visibility flag.
projectToScreen(worldPos, m) ==
    LET px == Mul(worldPos[1], m[1]) + Mul(worldPos[2], m[5]) + Mul(worldPos[3], m[9]) + m[13]
        py == Mul(worldPos[1], m[2]) + Mul(worldPos[2], m[6]) + Mul(worldPos[3], m[10]) + m[14]
        pz == Mul(worldPos[1], m[3]) + Mul(worldPos[2], m[7]) + Mul(worldPos[3], m[11]) + m[15]
        pw == Mul(worldPos[1], m[4]) + Mul(worldPos[2], m[8]) + Mul(worldPos[3], m[12]) + m[16]
        ndcX == JsDiv(px, pw)
        ndcY == JsDiv(py, pw)
        ndcZ == JsDiv(pz, pw)
    IN  [x |-> HalfOfOnePlus(ndcX),
         y |-> HalfOfOneMinus(ndcY),
         visible |-> pw > 0 /\ JsBetween(ndcZ, -Scale, Scale),
         w |-> pw]

\* ------------------------------------------------------------ sun position
MsPerDay == 24 * 3600 * 1000
ArcSecPerHalfTurn == 180 * 3600

\* A different calculateSunPosition: the hour is read in a zone one hour east
\* of UTC.
calculateSunPositionLocalNoon(t) ==
    LET dayOfYear == (t + MsPerDay) \div MsPerDay
        declination == -Quot((2345 * 36) * Cos(Quot(TwoPi * (dayOfYear + 10), 365)), Scale)
        declinationRad == Quot(declination * Pi, ArcSecPerHalfTurn)
        hours == ((t \div 3600000) + 1) % 24
        minutes == (t \div 60000) % 60
        seconds == (t \div 1000) % 60
        solarLongitude == ArcSecPerHalfTurn - 15 * (hours * 3600 + minutes * 60 + seconds)
        longitudeRad == Quot(solarLongitude * Pi, ArcSecPerHalfTurn)
    IN  [lat |-> declination,
         lon |-> solarLongitude,
         x |-> -Mul(Cos(declinationRad), Cos(longitudeRad)),
         y |-> -Sin(declinationRad),
         z |-> -Mul(Cos(declinationRad), Sin(longitudeRad))]

\* calculateSunPosition for a clock value t (ms since 1970-01-01T00:00Z, local
\* time zone UTC): lat and lon in arc-seconds, direction in thousandths.
calculateSunPosition(t) ==
    LET dayOfYear == (t + MsPerDay) \div MsPerDay
        declination == -Quot((2345 * 36) * Cos(Quot(TwoPi * (dayOfYear + 10), 365)), Scale)
        declinationRad == Quot(declination * Pi, ArcSecPerHalfTurn)
        hours == (t \div 3600000) % 24
        minutes == (t \div 60000) % 60
        seconds == (t \div 1000) % 60
        solarLongitude == ArcSecPerHalfTurn - 15 * (hours * 3600 + minutes * 60 + seconds)
        longitudeRad == Quot(solarLongitude * Pi, ArcSecPerHalfTurn)
    IN  [lat |-> declination,
         lon |-> solarLongitude,
         x |-> -Mul(Cos(declinationRad), Cos(longitudeRad)),
         y |-> -Sin(declinationRad),
         z |-> -Mul(Cos(declinationRad), Sin(longitudeRad))]

\* -------------------------------------------------------------------- state
VARIABLES
    revision,            \* "main" (src/src/main.ts) or "legacy" (part_002)
    env,                 \* what the page offers: canvas, gpu, adapter, device
    initPc,              \* position of init()
    initError,           \* the Error init() threw, or "none"
    initCalls,           \* number of times init() was invoked
    resources,           \* GPU objects created so far (names)
    listeners,           \* input and resize listeners are registered
    rafPending,          \* frame callbacks registered and not yet run
    canvas,              \* [width, height] of the canvas element
    depthTexture,        \* [defined, width, height]
    cameraDistance, rotationX, rotationY,
    isDragging, isPinching,
    lastMouseX, lastMouseY, lastTouchDistance, lastInteractionTime,
    fingers,             \* touches currently on the screen
    releasedAt,          \* Date.now() at the last release of mouse or touch, or NeverReleased
    now,                 \* Date.now()
    inputs,              \* input events delivered so far
    inputBudget,         \* input events the run may deliver
    geometry,            \* the sphere-mesh call under way and what it returned
    pixel,               \* one pixel of the colour and depth attachments, and the fragments that land on it
    cloudData,           \* the createProceduralClouds call under way: what Math.random returns, the bytes written
    mwPc, earthPc,       \* positions of loadMilkyWay and loadEarthAssets
    milkyWayTexture, earthTexture, cloudTexture,
    skyboxBindGroup,     \* [tex]
    bindGroup,           \* [color, clouds]
    textures,            \* textures created, with their upload enqueued
    unhandled,           \* async functions whose rejection nobody caught
    frameCount,          \* frames rendered so far
    ubuf,                \* uniform buffers: pass -> contents
    lastFrame            \* what the most recent frame callback did

cameraVars == <<cameraDistance, rotationX, rotationY, isDragging, isPinching,
                lastMouseX, lastMouseY, lastTouchDistance, lastInteractionTime>>
loaderState == <<mwPc, earthPc, milkyWayTexture, earthTexture, cloudTexture,
                 skyboxBindGroup, bindGroup, textures>>
loaderVars == <<loaderState, unhandled>>
initVars == <<revision, inputBudget, geometry, pixel, cloudData, env, initPc, initError, initCalls, resources,
              listeners>>
frameVars == <<frameCount, ubuf, lastFrame>>
vars == <<initVars, rafPending, canvas, depthTexture, cameraVars, fingers, releasedAt, now,
          inputs, loaderVars, frameVars>>

Passes == {"skybox", "starfield", "sun", "planet", "flare"}

\* The canvas element's width and height attributes before resize() runs.
DefaultCanvas == [width |-> 300, height |-> 150]
\* device.limits.maxTextureDimension2D of the modelled device.
MaxTextureSize == 400
\* What resize() may read: canvas.clientWidth, canvas.clientHeight and
\* window.devicePixelRatio in thousandths (0 stands for a missing value).
Layouts == {<<300, 150, 1000>>, <<300, 150, 0>>, <<300, 150, 3000>>, <<300, 0, 1000>>}

StartTime == 12 * 3600 * 1000
ClockStep == 2500

\* No mouse button or finger has been released yet.
NeverReleased == -1

NoDepthTexture == [defined |-> FALSE, width |-> 0, height |-> 0]
NoFrame == [kind |-> "none", frame |-> 0, canvas |-> DefaultCanvas, log |-> <<>>,
            drawn |-> <<>>, divisors |-> <<>>, subsolar |-> [lat |-> 0, lon |-> 0]]
EmptyBuffer == [frame |-> 0, data |-> <<>>]

\* No pixel is under examination.
NoPixel == [examined |-> FALSE, drawn |-> FALSE, depth |-> 0, colour |-> <<>>,
            depthWrites |-> <<>>]

\* No createProceduralClouds call is under examination.
NoClouds == [examined |-> FALSE, random |-> <<>>, created |-> FALSE, width |-> 0, height |-> 0,
             data |-> <<>>]

\* No sphere-mesh call is under examination.
EmptyMesh == [positions |-> <<>>, uvs |-> <<>>, indices |-> <<>>]
NoGeometry == [fn |-> "none", radius |-> 0, latBands |-> 0, lonBands |-> 0,
               returned |-> FALSE, mesh |-> EmptyMesh]

AllResources == {"defaultTexture", "sampler", "skyboxBuffers", "skyboxPipeline",
                 "starfieldBuffers", "starfieldPipeline", "sunBuffers", "sunPipeline",
                 "flareBuffers", "flarePipeline", "earthBuffers", "pipeline"}

InitRest ==
    /\ pixel = NoPixel
    /\ cloudData = NoClouds
    /\ env \in [canvas : BOOLEAN, gpu : BOOLEAN, adapter : BOOLEAN, device : BOOLEAN]
    /\ initPc = "notStarted"
    /\ initError = "none"
    /\ initCalls = 0
    /\ resources = {}
    /\ listeners = FALSE
    /\ rafPending = 0
    /\ canvas = DefaultCanvas
    /\ depthTexture = NoDepthTexture
    /\ cameraDistance = 3000
    /\ rotationX = 0
    /\ rotationY = 0
    /\ isDragging = FALSE
    /\ isPinching = FALSE
    /\ lastMouseX = 0
    /\ lastMouseY = 0
    /\ lastTouchDistance = 0
    /\ lastInteractionTime = 0
    /\ fingers = 0
    /\ releasedAt = NeverReleased
    /\ now = StartTime
    /\ inputs = 0
    /\ mwPc = "idle"
    /\ earthPc = "idle"
    /\ milkyWayTexture = "placeholder"
    /\ earthTexture = "placeholder"
    /\ cloudTexture = "placeholder"
    /\ skyboxBindGroup = [tex |-> "placeholder"]
    /\ bindGroup = [color |-> "placeholder", clouds |-> "placeholder"]
    /\ textures = {}
    /\ unhandled = {}
    /\ frameCount = 0
    /\ ubuf = [p \in Passes |-> EmptyBuffer]
    /\ lastFrame = NoFrame

InitCommon == InitRest /\ geometry = NoGeometry

Init == revision = "main" /\ inputBudget = MaxInputs /\ InitCommon

\* ------------------------------------------------------------------- resize
\* resize(): the canvas follows the client size times the pixel ratio, clamped
\* to the device limit; a new depth texture only when the size changed.
ResizedWidthUnclamped(clientWidth, ratio) ==
    LET dpr == Min(IF ratio = 0 THEN Scale ELSE ratio, 2 * Scale)
    IN  (clientWidth * dpr) \div Scale

ResizedWidth(clientWidth, ratio) ==
    LET dpr == Min(IF ratio = 0 THEN Scale ELSE ratio, 2 * Scale)
    IN  Min((clientWidth * dpr) \div Scale, MaxTextureSize)

resize(clientWidth, clientHeight, ratio) ==
    LET width == ResizedWidth(clientWidth, ratio)
        height == ResizedWidth(clientHeight, ratio)
    IN  IF canvas.width # width \/ canvas.height # height
        THEN /\ canvas' = [width |-> width, height |-> height]
             /\ depthTexture' = [defined |-> TRUE, width |-> width, height |-> height]
        ELSE UNCHANGED <<canvas, depthTexture>>

\* The window's resize event.
WindowResize ==
    /\ listeners
    /\ \E layout \in Layouts : resize(layout[1], layout[2], layout[3])
    /\ UNCHANGED <<initVars, rafPending, cameraVars, fingers, releasedAt, now, inputs,
                   loaderVars, frameVars>>

\* --------------------------------------------------------------------- init
\* A throw inside init(): the promise init() returned rejects and the call
\* site, a bare init(), does not catch it.
Abort(message) ==
    /\ initPc' = "aborted"
    /\ initError' = message
    /\ unhandled' = unhandled \cup {"init"}

\* init() up to its first await: the canvas and navigator.gpu checks.
InitStart ==
    /\ initPc = "notStarted"
    /\ initCalls' = initCalls + 1
    /\ IF ~env.canvas
       THEN Abort("Canvas element not found")
       ELSE IF ~env.gpu
       THEN Abort("WebGPU not supported")
       ELSE initPc' = "awaitAdapter" /\ UNCHANGED <<initError, unhandled>>
    /\ UNCHANGED <<revision, inputBudget, geometry, pixel, cloudData, env, resources, listeners, rafPending, canvas,
                   depthTexture, cameraVars, fingers, releasedAt, now, inputs,
                   loaderState, frameVars>>

\* A different init(): it goes on without looking at the adapter it got.
AdapterNeverChecked == FALSE

\* The test of `if (!adapter)`: requestAdapter() resolved with null.
AdapterMissing == ~env.adapter

\* requestAdapter() has resolved, with an adapter or with null.
InitAdapter ==
    /\ initPc = "awaitAdapter"
    /\ IF AdapterMissing
       THEN Abort("No GPU adapter found")
       ELSE initPc' = "awaitDevice" /\ UNCHANGED <<initError, unhandled>>
    /\ UNCHANGED <<revision, inputBudget, geometry, pixel, cloudData, env, initCalls, resources, listeners, rafPending,
                   canvas, depthTexture, cameraVars, fingers, releasedAt, now, inputs,
                   loaderState, frameVars>>

\* requestDevice() has rejected: the rejection leaves init().
InitDeviceRejected ==
    /\ initPc = "awaitDevice"
    /\ ~env.device
    /\ Abort("requestDevice rejected")
    /\ UNCHANGED <<revision, inputBudget, geometry, pixel, cloudData, env, initCalls, resources, listeners, rafPending,
                   canvas, depthTexture, cameraVars, fingers, releasedAt, now, inputs,
                   loaderState, frameVars>>

\* requestDevice() has resolved: the rest of init() runs without suspending.
\* It creates every GPU object, starts the two loader tasks (each runs to its
\* first await, the fetch), sizes the canvas, registers the listeners and
\* requests the first frame.
InitDevice ==
    /\ revision = "main"
    /\ initPc = "awaitDevice"
    /\ env.device
    /\ initPc' = "running"
    /\ resources' = AllResources
    /\ mwPc' = "fetch"
    /\ earthPc' = "earthFetch"
    /\ \E layout \in Layouts : resize(layout[1], layout[2], layout[3])
    /\ listeners' = TRUE
    /\ rafPending' = rafPending + 1
    /\ UNCHANGED <<revision, inputBudget, geometry, pixel, cloudData, env, initError, initCalls, cameraVars, fingers, releasedAt, now,
                   inputs, milkyWayTexture, earthTexture, cloudTexture,
                   skyboxBindGroup, bindGroup, textures, unhandled, frameVars>>

\* Time passes.
Tick ==
    /\ now < StartTime + MaxTicks * ClockStep
    /\ now' = now + ClockStep
    /\ UNCHANGED <<initVars, rafPending, canvas, depthTexture, cameraVars, fingers, releasedAt,
                   inputs, loaderVars, frameVars>>

\* ------------------------------------------------------------ texture loads
\* The three awaits of loadTexture: fetch, response.blob(), createImageBitmap.
NextAwait(stage) == IF stage = "fetch" THEN "blob" ELSE "bitmap"

\* loadMilkyWay: an await of loadTexture has resolved.  After the last one the
\* texture is created, its upload enqueued, and the skybox bind group rebuilt.
LoadMilkyWayResolved ==
    /\ mwPc \in {"fetch", "blob", "bitmap"}
    /\ IF mwPc = "bitmap"
       THEN /\ mwPc' = "done"
            /\ textures' = textures \cup {"milkyWay"}
            /\ milkyWayTexture' = "milkyWay"
            /\ skyboxBindGroup' = [tex |-> "milkyWay"]
       ELSE /\ mwPc' = NextAwait(mwPc)
            /\ UNCHANGED <<textures, milkyWayTexture, skyboxBindGroup>>
    /\ UNCHANGED <<initVars, rafPending, canvas, depthTexture, cameraVars, fingers, releasedAt,
                   now, inputs, earthPc, earthTexture, cloudTexture,
                   bindGroup, unhandled, frameVars>>

\* loadMilkyWay: an await has rejected; the catch logs a warning.
LoadMilkyWayRejected ==
    /\ mwPc \in {"fetch", "blob", "bitmap"}
    /\ mwPc' = "failed"
    /\ UNCHANGED <<initVars, rafPending, canvas, depthTexture, cameraVars, fingers, releasedAt,
                   now, inputs, earthPc, milkyWayTexture, earthTexture,
                   cloudTexture, skyboxBindGroup, bindGroup, textures, unhandled,
                   frameVars>>

\* loadEarthAssets leaves its first try block and starts the cloud fetch.
StartCloudFetch == earthPc' = "cloudFetch"

\* loadEarthAssets, first try: an await of loadTexture("/earth_day.jpg") has
\* resolved.  After the last one earthTexture is assigned and the function
\* runs on to the fetch of the cloud imagery.
EarthColourResolved ==
    /\ revision = "main"
    /\ earthPc \in {"earthFetch", "earthBlob", "earthBitmap"}
    /\ IF earthPc = "earthBitmap"
       THEN /\ textures' = textures \cup {"earthDay"}
            /\ earthTexture' = "earthDay"
            /\ StartCloudFetch
       ELSE /\ earthPc' = (IF earthPc = "earthFetch" THEN "earthBlob" ELSE "earthBitmap")
            /\ UNCHANGED <<textures, earthTexture>>
    /\ UNCHANGED <<initVars, rafPending, canvas, depthTexture, cameraVars, fingers, releasedAt,
                   now, inputs, mwPc, milkyWayTexture, cloudTexture,
                   skyboxBindGroup, bindGroup, unhandled, frameVars>>

\* A different loader: the first try block has no catch, the rejection leaves
\* loadEarthAssets and nothing after it runs.
EarthColourPropagates ==
    /\ earthPc' = "failed"
    /\ unhandled' = unhandled \cup {"loadEarthAssets"}

\* What a rejection inside the first try block leads to: the empty catch,
\* then the cloud fetch.
EarthColourCatch == StartCloudFetch /\ UNCHANGED unhandled

EarthColourRejected ==
    /\ revision = "main"
    /\ earthPc \in {"earthFetch", "earthBlob", "earthBitmap"}
    /\ EarthColourCatch
    /\ UNCHANGED <<initVars, rafPending, canvas, depthTexture, cameraVars, fingers, releasedAt,
                   now, inputs, mwPc, milkyWayTexture, earthTexture,
                   cloudTexture, skyboxBindGroup, bindGroup, textures, frameVars>>

\* A different end of loadEarthAssets: having rebuilt the bind group it
\* fetches the cloud imagery again.
FinishEarthAssetsRetries(clouds) ==
    /\ cloudTexture' = clouds
    /\ bindGroup' = [color |-> earthTexture, clouds |-> clouds]
    /\ earthPc' = "cloudFetch"

\* A different end of loadEarthAssets: the bind group names the day texture
\* whether or not it was ever created.
FinishEarthAssetsUnloaded(clouds) ==
    /\ cloudTexture' = clouds
    /\ bindGroup' = [color |-> "earthDay", clouds |-> clouds]
    /\ earthPc' = "done"

\* The end of loadEarthAssets: the planet bind group is rebuilt from the
\* current earthTexture and the given cloud texture.
FinishEarthAssets(clouds) ==
    /\ cloudTexture' = clouds
    /\ bindGroup' = [color |-> earthTexture, clouds |-> clouds]
    /\ earthPc' = "done"

\* The branch taken when the cloud response arrived with res.ok false: the
\* if has no else, cloudTexture keeps its value.
CloudResponseNotOk == FinishEarthAssets(cloudTexture) /\ UNCHANGED textures

\* loadEarthAssets, second try: fetch(url) has resolved with a response.
CloudFetchResolved ==
    /\ earthPc = "cloudFetch"
    /\ \E ok \in BOOLEAN :
          IF ok
          THEN earthPc' = "cloudBlob" /\ UNCHANGED <<cloudTexture, bindGroup, textures>>
          ELSE CloudResponseNotOk
    /\ UNCHANGED <<initVars, rafPending, canvas, depthTexture, cameraVars, fingers, releasedAt,
                   now, inputs, mwPc, milkyWayTexture, earthTexture,
                   skyboxBindGroup, unhandled, frameVars>>

\* res.blob() or createImageBitmap(blob) has resolved; after the bitmap the
\* cloud texture is created and uploaded.
CloudDecodeResolved ==
    /\ earthPc \in {"cloudBlob", "cloudBitmap"}
    /\ IF earthPc = "cloudBitmap"
       THEN /\ textures' = textures \cup {"cloudImagery"}
            /\ FinishEarthAssets("cloudImagery")
       ELSE /\ earthPc' = "cloudBitmap"
            /\ UNCHANGED <<cloudTexture, bindGroup, textures>>
    /\ UNCHANGED <<initVars, rafPending, canvas, depthTexture, cameraVars, fingers, releasedAt,
                   now, inputs, mwPc, milkyWayTexture, earthTexture,
                   skyboxBindGroup, unhandled, frameVars>>

\* An await of the second try has rejected: the catch substitutes the
\* procedural clouds (createProceduralClouds creates and uploads a texture).
CloudRejected ==
    /\ earthPc \in {"cloudFetch", "cloudBlob", "cloudBitmap"}
    /\ textures' = textures \cup {"procedural"}
    /\ FinishEarthAssets("procedural")
    /\ UNCHANGED <<initVars, rafPending, canvas, depthTexture, cameraVars, fingers, releasedAt,
                   now, inputs, mwPc, milkyWayTexture, earthTexture,
                   skyboxBindGroup, unhandled, frameVars>>

\* -------------------------------------------------------------------- input
\* Pointer and touch positions (clientX, clientY) the events may carry.
Points == {<<0, 0>>, <<300, 400>>}
\* deltaY values of wheel events: small and large, both signs.
WheelDeltas == {-5000, 500, 5000}
MaxFingers == 2
\* e.touches: the touch points on the screen when a touch event fires.
TouchLists == UNION {[1..n -> Points] : n \in 0..MaxFingers}

MinDistance == 1500
MaxDistance == 10000
autoRotateSpeed == 1
autoRotateDelay == 2000

\* Math.max(-Math.PI / 2, Math.min(Math.PI / 2, angle))
ClampPitch(angle) == Max(-HalfPi, Min(HalfPi, angle))
\* A different zoom clamp: the lower limit is 0.
ClampDistanceZeroFloor(distance) == Max(0, Min(MaxDistance, distance))

\* A different zoom clamp: the lower limit only.
ClampDistanceFloorOnly(distance) == Max(MinDistance, distance)

\* Math.max(1.5, Math.min(10.0, distance))
ClampDistance(distance) == Max(MinDistance, Min(MaxDistance, distance))

\* A different drag branch: it does not record the pointer's x position.
DragToKeepsOrigin(p) ==
    /\ rotationY' = rotationY + (p[1] - lastMouseX) * 10
    /\ rotationX' = ClampPitch(rotationX + (p[2] - lastMouseY) * 10)
    /\ lastMouseX' = lastMouseX
    /\ lastMouseY' = p[2]

\* The drag branch shared by mousemove and the one-finger touchmove: a pixel
\* is 0.01 rad.
DragTo(p) ==
    /\ rotationY' = rotationY + (p[1] - lastMouseX) * 10
    /\ rotationX' = ClampPitch(rotationX + (p[2] - lastMouseY) * 10)
    /\ lastMouseX' = p[1]
    /\ lastMouseY' = p[2]

getTouchDistance(touches) ==
    IF Len(touches) < 2 THEN 0
    ELSE LET dx == touches[1][1] - touches[2][1]
             dy == touches[1][2] - touches[2][2]
         IN  Isqrt(dx * dx + dy * dy)

otherVars == <<initVars, rafPending, canvas, depthTexture, now,
               loaderVars, frameVars>>

\* Every handler below runs on a registered listener, for one delivered event.
Delivered ==
    /\ listeners
    /\ inputs < inputBudget
    /\ inputs' = inputs + 1

MouseDown ==
    /\ Delivered
    /\ \E p \in Points :
          /\ isDragging' = TRUE
          /\ lastInteractionTime' = now
          /\ lastMouseX' = p[1]
          /\ lastMouseY' = p[2]
    /\ UNCHANGED <<cameraDistance, rotationX, rotationY, isPinching,
                   lastTouchDistance, fingers, releasedAt, otherVars>>

\* A different mousemove listener: it does not return when no drag is under way.
MouseMoveAlwaysDrags ==
    /\ Delivered
    /\ \E p \in Points : lastInteractionTime' = now /\ DragTo(p)
    /\ UNCHANGED <<cameraDistance, isDragging, isPinching, lastTouchDistance,
                   fingers, releasedAt, otherVars>>

MouseMove ==
    /\ Delivered
    /\ \E p \in Points :
          IF ~isDragging
          THEN UNCHANGED <<rotationX, rotationY, lastMouseX, lastMouseY,
                           lastInteractionTime>>
          ELSE lastInteractionTime' = now /\ DragTo(p)
    /\ UNCHANGED <<cameraDistance, isDragging, isPinching, lastTouchDistance,
                   fingers, releasedAt, otherVars>>

MouseUp ==
    /\ Delivered
    /\ isDragging' = FALSE
    /\ releasedAt' = (IF isDragging THEN now ELSE releasedAt)
    /\ UNCHANGED <<cameraDistance, rotationX, rotationY, isPinching, lastMouseX,
                   lastMouseY, lastTouchDistance, lastInteractionTime, fingers,
                   otherVars>>

MouseLeave ==
    /\ Delivered
    /\ isDragging' = FALSE
    /\ releasedAt' = (IF isDragging THEN now ELSE releasedAt)
    /\ UNCHANGED <<cameraDistance, rotationX, rotationY, isPinching, lastMouseX,
                   lastMouseY, lastTouchDistance, lastInteractionTime, fingers,
                   otherVars>>

\* zoomSpeed 0.3 * 0.01 per unit of deltaY.
WheelBy(deltaY) ==
    /\ Delivered
    /\ cameraDistance' = ClampDistance(cameraDistance + deltaY * 3)
    /\ lastInteractionTime' = now
    /\ UNCHANGED <<rotationX, rotationY, isDragging, isPinching, lastMouseX,
                   lastMouseY, lastTouchDistance, fingers, releasedAt, otherVars>>

Wheel == \E deltaY \in WheelDeltas : WheelBy(deltaY)

\* A finger (or more) lands: e.touches holds every touch now on the screen.
TouchStart ==
    /\ Delivered
    /\ \E touches \in TouchLists :
          /\ Len(touches) > fingers
          /\ fingers' = Len(touches)
          /\ IF Len(touches) = 1
             THEN /\ isDragging' = TRUE
                  /\ lastMouseX' = touches[1][1]
                  /\ lastMouseY' = touches[1][2]
                  /\ UNCHANGED <<isPinching, lastTouchDistance>>
             ELSE IF Len(touches) = 2
             THEN /\ isPinching' = TRUE
                  /\ lastTouchDistance' = getTouchDistance(touches)
                  /\ UNCHANGED <<isDragging, lastMouseX, lastMouseY>>
             ELSE UNCHANGED <<isDragging, isPinching, lastMouseX, lastMouseY,
                              lastTouchDistance>>
    /\ lastInteractionTime' = now
    /\ UNCHANGED <<cameraDistance, rotationX, rotationY, releasedAt, otherVars>>

\* A different touchmove listener: its drag branch does not look at the number
\* of touches.
TouchMoveAnyCountDrags(touches) ==
    /\ Delivered
    /\ fingers > 0
    /\ Len(touches) = fingers
    /\ IF isDragging
       THEN /\ DragTo(touches[1])
            /\ UNCHANGED <<cameraDistance, lastTouchDistance>>
       ELSE IF Len(touches) = 2 /\ isPinching
       THEN LET currentDistance == getTouchDistance(touches)
                delta == lastTouchDistance - currentDistance
            IN  /\ cameraDistance' = ClampDistance(cameraDistance + delta * 10)
                /\ lastTouchDistance' = currentDistance
                /\ UNCHANGED <<rotationX, rotationY, lastMouseX, lastMouseY>>
       ELSE UNCHANGED <<cameraDistance, rotationX, rotationY, lastMouseX,
                        lastMouseY, lastTouchDistance>>
    /\ lastInteractionTime' = now
    /\ UNCHANGED <<isDragging, isPinching, fingers, releasedAt, otherVars>>

\* The touchmove listener for the touches e.touches holds.
TouchMoveWith(touches) ==
    /\ Delivered
    /\ fingers > 0
    /\ Len(touches) = fingers
    /\ IF Len(touches) = 1 /\ isDragging
       THEN /\ DragTo(touches[1])
            /\ UNCHANGED <<cameraDistance, lastTouchDistance>>
       ELSE IF Len(touches) = 2 /\ isPinching
       THEN LET currentDistance == getTouchDistance(touches)
                delta == lastTouchDistance - currentDistance
            IN  /\ cameraDistance' = ClampDistance(cameraDistance + delta * 10)
                /\ lastTouchDistance' = currentDistance
                /\ UNCHANGED <<rotationX, rotationY, lastMouseX, lastMouseY>>
       ELSE UNCHANGED <<cameraDistance, rotationX, rotationY, lastMouseX,
                        lastMouseY, lastTouchDistance>>
    /\ lastInteractionTime' = now
    /\ UNCHANGED <<isDragging, isPinching, fingers, releasedAt, otherVars>>

TouchMove == \E touches \in TouchLists : TouchMoveWith(touches)

\* A finger (or more) lifts: e.touches holds the touches that remain.
TouchEnd ==
    /\ Delivered
    /\ fingers > 0
    /\ \E touches \in TouchLists :
          /\ Len(touches) < fingers
          /\ fingers' = Len(touches)
          /\ IF Len(touches) = 0
             THEN /\ isDragging' = FALSE
                  /\ isPinching' = FALSE
                  /\ releasedAt' = now
                  /\ UNCHANGED <<lastMouseX, lastMouseY>>
             ELSE IF Len(touches) = 1
             THEN /\ isPinching' = FALSE
                  /\ isDragging' = TRUE
                  /\ lastMouseX' = touches[1][1]
                  /\ lastMouseY' = touches[1][2]
                  /\ UNCHANGED releasedAt
             ELSE UNCHANGED <<isDragging, isPinching, lastMouseX, lastMouseY,
                              releasedAt>>
    /\ UNCHANGED <<cameraDistance, rotationX, rotationY, lastTouchDistance,
                   lastInteractionTime, otherVars>>

\* -------------------------------------------------------------------- frame
Cmd(op, target) == [op |-> op, target |-> target]

\* A different frame: the planet is drawn before the sun.
FrameCommandsPlanetBeforeSun ==
    <<Cmd("writeBuffer", "planet"),
      Cmd("writeBuffer", "skybox"),
      Cmd("writeBuffer", "starfield"),
      Cmd("writeBuffer", "sun"),
      Cmd("createCommandEncoder", "encoder"),
      Cmd("beginRenderPass", "encoder"),
      Cmd("draw", "skybox"),
      Cmd("draw", "starfield"),
      Cmd("draw", "planet"),
      Cmd("draw", "sun"),
      Cmd("writeBuffer", "flare"),
      Cmd("draw", "flare"),
      Cmd("end", "encoder"),
      Cmd("submit", "encoder"),
      Cmd("requestAnimationFrame", "frame")>>

\* A different frame: the flare's uniforms are written after the submit.
FrameCommandsFlareWrittenLate ==
    <<Cmd("writeBuffer", "planet"),
      Cmd("writeBuffer", "skybox"),
      Cmd("writeBuffer", "starfield"),
      Cmd("writeBuffer", "sun"),
      Cmd("createCommandEncoder", "encoder"),
      Cmd("beginRenderPass", "encoder"),
      Cmd("draw", "skybox"),
      Cmd("draw", "starfield"),
      Cmd("draw", "sun"),
      Cmd("draw", "planet"),
      Cmd("draw", "flare"),
      Cmd("end", "encoder"),
      Cmd("submit", "encoder"),
      Cmd("writeBuffer", "flare"),
      Cmd("requestAnimationFrame", "frame")>>

\* The queue and encoder calls of one rendered frame, in program order.
FrameCommands ==
    <<Cmd("writeBuffer", "planet"),
      Cmd("writeBuffer", "skybox"),
      Cmd("writeBuffer", "starfield"),
      Cmd("writeBuffer", "sun"),
      Cmd("createCommandEncoder", "encoder"),
      Cmd("beginRenderPass", "encoder"),
      Cmd("draw", "skybox"),
      Cmd("draw", "starfield"),
      Cmd("draw", "sun"),
      Cmd("draw", "planet"),
      Cmd("writeBuffer", "flare"),
      Cmd("draw", "flare"),
      Cmd("end", "encoder"),
      Cmd("submit", "encoder"),
      Cmd("requestAnimationFrame", "frame")>>

\* A different early return: it registers no further frame callback.
SkipCommandsReturnOnly == <<>>

\* The frame callback's branch when no depth texture exists yet.
SkipCommands == <<Cmd("requestAnimationFrame", "frame")>>

Indices(log, op) == {i \in 1..Len(log) : log[i].op = op}
Count(log, op) == Cardinality(Indices(log, op))
Written(log, pass, k) ==
    \E i \in 1..k : log[i] = Cmd("writeBuffer", pass)

\* The textures of the bind group a pass's setBindGroup call names.
BoundTextures(pass) ==
    IF pass = "skybox" THEN <<skyboxBindGroup.tex>>
    ELSE IF pass = "planet" THEN <<bindGroup.color, bindGroup.clouds>>
    ELSE <<>>

\* A different auto-rotation test: it ignores an ongoing drag.
AutoRotatesWhileDragging ==
    now - lastInteractionTime > autoRotateDelay /\ ~isPinching

\* A different auto-rotation test: it ignores an ongoing pinch.
AutoRotatesWhilePinching ==
    now - lastInteractionTime > autoRotateDelay /\ ~isDragging

\* The frame's auto-rotation test.
AutoRotates ==
    now - lastInteractionTime > autoRotateDelay /\ ~isDragging /\ ~isPinching

\* Math.min(1.0, Math.max(0.0, (cameraDistance - 1.5) / 2.0))
CloudOpacity(distance) == Min(Scale, Max(0, Quot((distance - MinDistance) * Scale, 2 * Scale)))

\* The Float32Array(28) the frame fills for the planet pass and writes at
\* offset 0 of the uniform buffer, by JavaScript index: the matrix from 0, the
\* sun direction from 16, the camera position from 20, the cloud opacity at
\* 24; a new Float32Array holds zeros everywhere else.
uniformData(data) ==
    [k \in 0..27 |->
        IF k < 16 THEN data.mvp[k + 1]
        ELSE IF k \in 16..18 THEN data.sunDir[k - 15]
        ELSE IF k \in 20..22 THEN data.cameraPos[k - 19]
        ELSE IF k = 24 THEN data.cloudOpacity
        ELSE 0]

\* The members of the planet shader's Uniforms struct in declaration order,
\* with the alignment and the size in bytes of their WGSL types: mat4x4<f32>
\* is aligned to 16 and 64 long, vec3<f32> aligned to 16 and 12 long, f32
\* aligned to 4 and 4 long.
Uniforms ==
    << [name |-> "mvp", align |-> 16, size |-> 64],
       [name |-> "sunDir", align |-> 16, size |-> 12],
       [name |-> "_pad1", align |-> 4, size |-> 4],
       [name |-> "cameraPos", align |-> 16, size |-> 12],
       [name |-> "cloudOpacity", align |-> 4, size |-> 4] >>

\* The least multiple of k that is at least n.
RoundUp(k, n) == ((n + k - 1) \div k) * k

\* The byte offset of member i of a struct: the first member is at 0, every
\* other one at the end of the member before it, rounded up to its alignment.
RECURSIVE OffsetOf(_, _)
OffsetOf(members, i) ==
    IF i = 1 THEN 0
    ELSE RoundUp(members[i].align, OffsetOf(members, i - 1) + members[i - 1].size)

\* What the planet shader reads as uniforms.<name> for a scalar member, the
\* uniform buffer holding the floats of uniformData(data) from offset 0.
UniformScalar(data, name) ==
    LET i == CHOOSE j \in 1..Len(Uniforms) : Uniforms[j].name = name
    IN  uniformData(data)[OffsetOf(Uniforms, i) \div 4]

\* A different flare: the intensity follows the viewing angle alone, whether
\* or not the sun is on the screen.
FlareIntensityUnconditional(screen, sunPos, pitch, yaw) ==
    LET viewDir == <<Mul(Sin(yaw), Cos(pitch)), -Sin(pitch), Mul(Cos(yaw), Cos(pitch))>>
        dot == Mul(sunPos.x, viewDir[1]) + Mul(sunPos.y, viewDir[2])
               + Mul(sunPos.z, viewDir[3])
    IN  Isqrt(Max(0, dot) * Scale)

\* The lens-flare intensity for a projected sun, a sun direction and a camera.
FlareIntensity(screen, sunPos, pitch, yaw) ==
    IF /\ screen.visible
       /\ JsBetween(screen.x, -300, 1300)
       /\ JsBetween(screen.y, -300, 1300)
    THEN LET viewDir == <<Mul(Sin(yaw), Cos(pitch)), -Sin(pitch), Mul(Cos(yaw), Cos(pitch))>>
             dot == Mul(sunPos.x, viewDir[1]) + Mul(sunPos.y, viewDir[2])
                    + Mul(sunPos.z, viewDir[3])
         IN  Isqrt(Max(0, dot) * Scale)
    ELSE 0

\* What one rendered frame computes, for the camera with yaw already advanced
\* by the auto-rotation: the values written into each pass's uniform buffer,
\* and the divisors of the divisions that depend on the state (the aspect
\* ratio inside getMVPMatrix, skipped for an empty canvas; the perspective
\* divide of projectToScreen; the flare's aspect ratio).
FrameValues(yaw) ==
    LET sunPos == calculateSunPosition(now)
        mvp == MVPMatrix(canvas.width, canvas.height, rotationX, yaw, cameraDistance)
        sunWorldPos == <<sunPos.x * 80, sunPos.y * 80, sunPos.z * 80>>
        screen == projectToScreen(sunWorldPos, mvp)
    IN  [data |->
           [skybox |-> [mvp |-> mvp],
            starfield |-> [mvp |-> mvp],
            planet |-> [mvp |-> mvp,
                        sunDir |-> <<sunPos.x, sunPos.y, sunPos.z>>,
                        cameraPos |-> <<0, 0, cameraDistance>>,
                        cloudOpacity |-> CloudOpacity(cameraDistance)],
            sun |-> [mvp |-> mvp,
                     sunWorldPos |-> sunWorldPos,
                     sunScale |-> 1600,
                     cameraPos |-> <<Mul(Mul(Sin(yaw), Cos(rotationX)), cameraDistance),
                                     -Mul(Sin(rotationX), cameraDistance),
                                     Mul(Mul(Cos(yaw), Cos(rotationX)), cameraDistance)>>,
                     time |-> now - StartTime],
            flare |-> [sunScreenPos |-> <<screen.x, screen.y>>,
                       intensity |-> FlareIntensity(screen, sunPos, rotationX, yaw),
                       aspect |-> JsDiv(canvas.width, canvas.height)]],
         divisors |->
           (IF canvas.width = 0 \/ canvas.height = 0 THEN <<>>
            ELSE <<[site |-> "getMVPMatrix", divisor |-> canvas.height]>>)
           \o <<[site |-> "projectToScreen", divisor |-> screen.w],
                [site |-> "flareAspect", divisor |-> canvas.height]>>,
         \* what updateTimeDisplay is given: the subsolar point, in arc-seconds
         subsolar |-> [lat |-> sunPos.lat, lon |-> sunPos.lon]]

\* The effect of running the recorded commands `log` as frame number n:
\* every writeBuffer stores this frame's data, every draw is executed by the
\* submit that follows it with the buffer contents the queue holds then, and
\* every requestAnimationFrame registers one callback.
RunCommands(log, n, values) ==
    LET submitAt == IF Indices(log, "submit") = {} THEN 0
                    ELSE CHOOSE i \in Indices(log, "submit") :
                            \A j \in Indices(log, "submit") : i <= j
        draws == SelectSeq(log, LAMBDA c : c.op = "draw")
        at(k) == CHOOSE i \in Indices(log, "draw") :
                    Cardinality({j \in Indices(log, "draw") : j <= i}) = k
    IN  /\ ubuf' = [p \in Passes |->
                      IF Written(log, p, Len(log))
                      THEN [frame |-> n, data |-> values.data[p]]
                      ELSE ubuf[p]]
        /\ lastFrame' =
              [kind |-> "rendered",
               frame |-> n,
               canvas |-> canvas,
               log |-> log,
               drawn |-> [k \in 1..Len(draws) |->
                            [pass |-> draws[k].target,
                             textures |-> BoundTextures(draws[k].target),
                             writtenBefore |-> Written(log, draws[k].target, at(k)),
                             uniformFrame |->
                                IF Written(log, draws[k].target, submitAt)
                                THEN n ELSE ubuf[draws[k].target].frame]],
               divisors |-> values.divisors,
               subsolar |-> values.subsolar]
        /\ rafPending' = rafPending - 1 + Count(log, "requestAnimationFrame")

\* One run of the frame callback.
Frame ==
    /\ revision = "main"
    /\ frameCount < MaxFrames
    /\ initPc = "running"
    /\ rafPending > 0
    /\ IF ~depthTexture.defined
       THEN /\ rafPending' = rafPending - 1 + Count(SkipCommands, "requestAnimationFrame")
            /\ lastFrame' = [NoFrame EXCEPT !.kind = "skipped", !.canvas = canvas,
                                            !.log = SkipCommands]
            /\ UNCHANGED <<rotationY, frameCount, ubuf>>
       ELSE /\ frameCount' = frameCount + 1
            /\ rotationY' = (IF AutoRotates THEN rotationY + autoRotateSpeed ELSE rotationY)
            /\ RunCommands(FrameCommands, frameCount', FrameValues(rotationY'))
    /\ UNCHANGED <<initVars, canvas, depthTexture, cameraDistance, rotationX,
                   isDragging, isPinching, lastMouseX, lastMouseY,
                   lastTouchDistance, lastInteractionTime, fingers, releasedAt, now, inputs,
                   loaderVars>>

\* ------------------------------------------- the earlier revision, part_002
\* GPU objects part_002's init() creates before it awaits the planet texture,
\* and after.
LegacyEarlyResources == {"earthBuffers", "uniformBuffer", "defaultTexture", "sampler"}
LegacyLateResources == {"bindGroup", "pipeline"}
IdentityMatrix == translationMatrix(0, 0, 0)

\* requestDevice() has resolved: init() creates the sphere buffers, the
\* default texture and the sampler, then suspends in
\* earthTexture = await loadTexture("/earth_day.jpg").
LegacyInitDevice ==
    /\ revision = "legacy"
    /\ initPc = "awaitDevice"
    /\ env.device
    /\ initPc' = "awaitTexture"
    /\ resources' = LegacyEarlyResources
    /\ earthPc' = "earthFetch"
    /\ UNCHANGED <<revision, inputBudget, geometry, pixel, cloudData, env, initError, initCalls, listeners, rafPending,
                   canvas, depthTexture, cameraVars, fingers, releasedAt, now, inputs, mwPc,
                   milkyWayTexture, earthTexture, cloudTexture, skyboxBindGroup,
                   bindGroup, textures, unhandled, frameVars>>

\* The rest of part_002's init() once the texture is settled: bind group,
\* pipeline, resize(), listeners, first requestAnimationFrame.
LegacyInitRest(texture) ==
    /\ initPc' = "running"
    /\ earthPc' = "done"
    /\ earthTexture' = texture
    /\ bindGroup' = [color |-> texture, clouds |-> "placeholder"]
    /\ resources' = resources \cup LegacyLateResources
    /\ \E layout \in Layouts : resize(layout[1], layout[2], layout[3])
    /\ listeners' = TRUE
    /\ rafPending' = rafPending + 1

\* An await of loadTexture has resolved inside init().
LegacyTextureResolved ==
    /\ revision = "legacy"
    /\ initPc = "awaitTexture"
    /\ earthPc \in {"earthFetch", "earthBlob", "earthBitmap"}
    /\ IF earthPc = "earthBitmap"
       THEN /\ textures' = textures \cup {"earthDay"}
            /\ LegacyInitRest("earthDay")
       ELSE /\ earthPc' = (IF earthPc = "earthFetch" THEN "earthBlob" ELSE "earthBitmap")
            /\ UNCHANGED <<initPc, earthTexture, bindGroup, resources, canvas,
                           depthTexture, listeners, rafPending, textures>>
    /\ UNCHANGED <<revision, inputBudget, geometry, pixel, cloudData, env, initError, initCalls, cameraVars, fingers, releasedAt, now,
                   inputs, mwPc, milkyWayTexture, cloudTexture, skyboxBindGroup,
                   unhandled, frameVars>>

\* An await of loadTexture has rejected inside init(): the catch falls back
\* to the default texture and init() goes on.
LegacyTextureRejected ==
    /\ revision = "legacy"
    /\ initPc = "awaitTexture"
    /\ earthPc \in {"earthFetch", "earthBlob", "earthBitmap"}
    /\ LegacyInitRest("placeholder")
    /\ UNCHANGED <<revision, inputBudget, geometry, pixel, cloudData, env, initError, initCalls, cameraVars, fingers, releasedAt, now,
                   inputs, mwPc, milkyWayTexture, cloudTexture, skyboxBindGroup,
                   textures, unhandled, frameVars>>

\* part_002's frame draws the planet alone.
LegacyCommands ==
    <<Cmd("writeBuffer", "planet"),
      Cmd("createCommandEncoder", "encoder"),
      Cmd("beginRenderPass", "encoder"),
      Cmd("draw", "planet"),
      Cmd("end", "encoder"),
      Cmd("submit", "encoder"),
      Cmd("requestAnimationFrame", "frame")>>

LegacyValues(yaw) ==
    LET mvp == IF canvas.width = 0 \/ canvas.height = 0 THEN IdentityMatrix
               ELSE MVPMatrix(canvas.width, canvas.height, rotationX, yaw, cameraDistance)
    IN  [data |-> [p \in Passes |-> [mvp |-> mvp, lightDir |-> <<500, 1000, 500>>]],
         divisors |-> IF canvas.width = 0 \/ canvas.height = 0 THEN <<>>
                      ELSE <<[site |-> "getMVPMatrix", divisor |-> canvas.height]>>,
         subsolar |-> NoFrame.subsolar]

LegacyFrame ==
    /\ revision = "legacy"
    /\ frameCount < MaxFrames
    /\ initPc = "running"
    /\ rafPending > 0
    /\ IF ~depthTexture.defined
       THEN /\ rafPending' = rafPending - 1 + Count(SkipCommands, "requestAnimationFrame")
            /\ lastFrame' = [NoFrame EXCEPT !.kind = "skipped", !.canvas = canvas,
                                            !.log = SkipCommands]
            /\ UNCHANGED <<rotationY, frameCount, ubuf>>
       ELSE /\ frameCount' = frameCount + 1
            /\ rotationY' = (IF AutoRotates THEN rotationY + 2 * autoRotateSpeed
                             ELSE rotationY)
            /\ RunCommands(LegacyCommands, frameCount', LegacyValues(rotationY'))
    /\ UNCHANGED <<initVars, canvas, depthTexture, cameraDistance, rotationX,
                   isDragging, isPinching, lastMouseX, lastMouseY,
                   lastTouchDistance, lastInteractionTime, fingers, releasedAt, now, inputs,
                   loaderVars>>

\* Start-up, the texture loads, mouse and wheel input and the frame loop.
Next ==
    \/ InitStart
    \/ InitAdapter
    \/ InitDeviceRejected
    \/ InitDevice
    \/ LoadMilkyWayResolved
    \/ LoadMilkyWayRejected
    \/ EarthColourResolved
    \/ EarthColourRejected
    \/ CloudFetchResolved
    \/ CloudDecodeResolved
    \/ CloudRejected
    \/ MouseDown
    \/ MouseMove
    \/ MouseUp
    \/ MouseLeave
    \/ Wheel
    \/ Frame
Spec == Init /\ [][Next]_vars

\* Longer input sequences of every kind against the frame loop, while every
\* texture request stays pending and the clock stands still.
InitCamera == revision = "main" /\ inputBudget = MaxCameraInputs /\ InitCommon
NextCamera ==
    \/ InitStart
    \/ InitAdapter
    \/ InitDeviceRejected
    \/ InitDevice
    \/ MouseDown
    \/ MouseMove
    \/ MouseUp
    \/ MouseLeave
    \/ Wheel
    \/ TouchStart
    \/ TouchMove
    \/ TouchEnd
    \/ Frame
SpecCamera == InitCamera /\ [][NextCamera]_vars

\* Presses, drags and releases of mouse and fingers against the clock and the
\* frame loop: what the frame's auto-rotation test looks at.
NextIdle ==
    \/ InitStart
    \/ InitAdapter
    \/ InitDeviceRejected
    \/ InitDevice
    \/ Tick
    \/ MouseDown
    \/ MouseMove
    \/ MouseUp
    \/ MouseLeave
    \/ TouchStart
    \/ TouchEnd
    \/ Frame
SpecIdle == InitCamera /\ [][NextIdle]_vars

\* Window resizes and the clock against the frame loop, without input.
InitResize == revision = "main" /\ inputBudget = 0 /\ InitCommon
NextResize ==
    \/ InitStart
    \/ InitAdapter
    \/ InitDeviceRejected
    \/ InitDevice
    \/ WindowResize
    \/ Tick
    \/ Frame
SpecResize == InitResize /\ [][NextResize]_vars

\* part_002: start-up with the awaited texture load, resizes, the clock and
\* the frame loop.
InitLegacy == revision = "legacy" /\ inputBudget = 0 /\ InitCommon
NextLegacy ==
    \/ InitStart
    \/ InitAdapter
    \/ InitDeviceRejected
    \/ LegacyInitDevice
    \/ LegacyTextureResolved
    \/ LegacyTextureRejected
    \/ WindowResize
    \/ Tick
    \/ LegacyFrame
SpecLegacy == InitLegacy /\ [][NextLegacy]_vars

\* The frame loop on a running program whose camera an earlier interaction has
\* left at an axis-aligned yaw and pitch and at some allowed distance; that
\* interaction ended either just now or five seconds ago.
ViewAngles == {0, HalfPi, -HalfPi, Pi}
ViewPitches == {0, HalfPi, -HalfPi}
ViewDistances == {MinDistance, 2000, 3000, 3500, 5000, MaxDistance}
RunningProgram ==
    /\ revision = "main"
    /\ geometry = NoGeometry
    /\ env = [canvas |-> TRUE, gpu |-> TRUE, adapter |-> TRUE, device |-> TRUE]
    /\ initPc = "running"
    /\ initError = "none"
    /\ initCalls = 1
    /\ resources = AllResources
    /\ listeners = TRUE
    /\ rafPending = 1
    /\ canvas = [width |-> 400, height |-> 300]
    /\ depthTexture = [defined |-> TRUE, width |-> 400, height |-> 300]
    /\ isDragging = FALSE
    /\ isPinching = FALSE
    /\ lastMouseX = 0
    /\ lastMouseY = 0
    /\ lastTouchDistance = 0
    /\ fingers = 0
    /\ releasedAt = NeverReleased
    /\ inputs = 0
    /\ mwPc = "fetch"
    /\ earthPc = "earthFetch"
    /\ milkyWayTexture = "placeholder"
    /\ earthTexture = "placeholder"
    /\ cloudTexture = "placeholder"
    /\ skyboxBindGroup = [tex |-> "placeholder"]
    /\ bindGroup = [color |-> "placeholder", clouds |-> "placeholder"]
    /\ textures = {}
    /\ unhandled = {}
    /\ frameCount = 0
    /\ ubuf = [p \in Passes |-> EmptyBuffer]
    /\ lastFrame = NoFrame
InitView ==
    /\ RunningProgram
    /\ pixel = NoPixel
    /\ cloudData = NoClouds
    /\ inputBudget = 0
    /\ cameraDistance \in ViewDistances
    /\ rotationX \in ViewPitches
    /\ rotationY \in ViewAngles
    /\ lastInteractionTime \in {StartTime - 5000, StartTime}
    /\ now = StartTime
NextView ==
    \/ Tick
    \/ Frame
SpecView == InitView /\ [][NextView]_vars

\* The frame loop on a running program started at some whole second of some
\* day of January 1970, the camera untouched.
SunDays == {0, 1, 20}
SunHours == {0, 6, 11, 12, 13, 23}
SunMinutes == {0, 30, 59}
SunSeconds == {0, 1, 59}
SunTimes ==
    {d * MsPerDay + (h * 3600 + m * 60 + sec) * 1000 :
        d \in SunDays, h \in SunHours, m \in SunMinutes, sec \in SunSeconds}
InitSun ==
    /\ RunningProgram
    /\ pixel = NoPixel
    /\ cloudData = NoClouds
    /\ inputBudget = 0
    /\ cameraDistance = 3000
    /\ rotationX = 0
    /\ rotationY = 0
    /\ lastInteractionTime = 0
    /\ now \in SunTimes
NextSun ==
    \/ Frame
SpecSun == InitSun /\ [][NextSun]_vars

\* The zoom inputs alone (wheel and pinch) against the clock and the frame
\* loop, on a running program with the camera as init() leaves it.
InitZoom ==
    /\ RunningProgram
    /\ pixel = NoPixel
    /\ cloudData = NoClouds
    /\ inputBudget = MaxCameraInputs
    /\ cameraDistance = 3000
    /\ rotationX = 0
    /\ rotationY = 0
    /\ lastInteractionTime = 0
    /\ now = StartTime
NextZoom ==
    \/ Tick
    \/ Wheel
    \/ TouchStart
    \/ TouchMove
    \/ TouchEnd
    \/ Frame
SpecZoom == InitZoom /\ [][NextZoom]_vars

\* ------------------------------------------------- depth test at one pixel
\* Depths are in hundred-thousandths: depthClearValue 1.0.
DepthOne == 100000
\* Most fragments one draw puts on the pixel.
MaxFragments == 2

\* A different depth state: the starfield pipeline writes depth too.
DepthStencilStarsWrite(pass) ==
    IF pass \in {"sun", "planet", "starfield"}
    THEN [depthWriteEnabled |-> TRUE, depthCompare |-> "less"]
    ELSE IF pass = "flare"
    THEN [depthWriteEnabled |-> FALSE, depthCompare |-> "always"]
    ELSE [depthWriteEnabled |-> FALSE, depthCompare |-> "less-equal"]

\* The depthStencil state of each pipeline.
DepthStencil(pass) ==
    IF pass \in {"sun", "planet"}
    THEN [depthWriteEnabled |-> TRUE, depthCompare |-> "less"]
    ELSE IF pass = "flare"
    THEN [depthWriteEnabled |-> FALSE, depthCompare |-> "always"]
    ELSE [depthWriteEnabled |-> FALSE, depthCompare |-> "less-equal"]

\* The colour target of each pipeline: the skybox and the planet have no blend
\* state and both return alpha 1; starfield, sun and flare add to the
\* destination (dstFactor "one").
Additive(pass) == pass \in {"starfield", "sun", "flare"}

DepthTest(compare, z, stored) ==
    IF compare = "less" THEN z < stored
    ELSE IF compare = "less-equal" THEN z <= stored
    ELSE TRUE

\* One fragment of `pass` at depth z reaches the pixel px.  The colour is kept
\* as the list of passes whose output it is made of.
Fragment(px, pass, z) ==
    LET state == DepthStencil(pass)
    IN  IF ~DepthTest(state.depthCompare, z, px.depth) THEN px
        ELSE [px EXCEPT
                !.colour = IF Additive(pass) THEN @ \o <<pass>> ELSE <<pass>>,
                !.depth = IF state.depthWriteEnabled THEN z ELSE @,
                !.depthWrites = IF state.depthWriteEnabled THEN @ \o <<pass>> ELSE @]

\* One draw call: its fragments on the pixel, in primitive order.
RECURSIVE Draw(_, _, _, _)
Draw(px, pass, zs, i) ==
    IF i > Len(zs) \/ Len(px.colour) < 0 THEN px
    ELSE Draw(Fragment(px, pass, zs[i]), pass, zs, i + 1)

\* The draws of a frame, in the order the frame records them.
PassOrder ==
    LET draws == SelectSeq(FrameCommands, LAMBDA c : c.op = "draw")
    IN  [k \in 1..Len(draws) |-> draws[k].target]
RECURSIVE Draws(_, _, _)
Draws(px, fragments, k) ==
    IF k > Len(PassOrder) \/ Len(px.colour) < 0 THEN px
    ELSE Draws(Draw(px, PassOrder[k], fragments[PassOrder[k]], 1), fragments, k + 1)

\* The render pass at one pixel: both attachments are cleared (loadOp
\* "clear", depthClearValue 1.0), then the draws run.
RenderPassAt(fragments) ==
    Draws([examined |-> TRUE, drawn |-> TRUE, depth |-> DepthOne,
           colour |-> <<"clear">>, depthWrites |-> <<>>], fragments, 1)

\* Depths the sun's and the planet's fragments may have (z / w of mvp *
\* position), the far plane included.
SceneDepths == {0, 50000, 99995, DepthOne}
ShortSeqs(S) == UNION {[1..n -> S] : n \in 0..MaxFragments}
\* What may land on the pixel: the skybox at 0.99999 and the stars at 0.9999
\* (their vertex shaders set z to that share of w), the flare quad at 0.
PixelFragments ==
    [skybox : {<<>>, <<99999>>}, starfield : {<<>>, <<99990>>},
     sun : ShortSeqs(SceneDepths), planet : ShortSeqs(SceneDepths),
     flare : {<<>>, <<0>>}]

InitDepth ==
    /\ RunningProgram
    /\ inputBudget = 0
    /\ cameraDistance = 3000
    /\ rotationX = 0
    /\ rotationY = 0
    /\ lastInteractionTime = 0
    /\ now = StartTime
    /\ cloudData = NoClouds
    /\ \E fragments \in PixelFragments :
          pixel = [NoPixel EXCEPT !.examined = TRUE] @@ [fragments |-> fragments]
depthOtherVars == <<revision, inputBudget, geometry, cloudData, env, initPc, initError, initCalls,
                    resources, listeners, rafPending, canvas, depthTexture, cameraVars,
                    fingers, releasedAt, now, inputs, loaderVars, frameVars>>
\* The GPU executes the frame's render pass; the pixel is followed through it.
RenderPixel ==
    /\ pixel.examined
    /\ ~pixel.drawn
    /\ pixel' = RenderPassAt(pixel.fragments) @@ [fragments |-> pixel.fragments]
    /\ UNCHANGED depthOtherVars
NextDepth ==
    \/ RenderPixel
SpecDepth == InitDepth /\ [][NextDepth]_vars

\* -------------------------------------------------------- procedural clouds
\* Width and height of the procedural cloud textures examined (the program's
\* is 2048 x 1024).
CloudWidth == 3
CloudHeight == 2

\* What Math.random() may return, in thousandths: 0.6 and the next value up.
Randoms == {600, 601}

\* Storing a number in a Uint8Array keeps it modulo 256.
Uint8(v) == v % 256

\* A different texel value: cloud texels are at 200.
CloudValueBright(random) == IF random > 600 THEN 200 ELSE 0

\* value = Math.random() > 0.6 ? 100 : 0
CloudValue(random) == IF random > 600 THEN 100 ELSE 0

\* createProceduralClouds with width x height texels, random[i + 1] being what
\* Math.random() returns in iteration i: the Uint8Array indexed from 0 that
\* the loop leaves (each element is assigned once: value at idx, idx + 1 and
\* idx + 2, value * 2 at idx + 3, idx = i * 4), uploaded by writeTexture to a
\* texture of that size.
createProceduralClouds(width, height, random) ==
    [width |-> width,
     height |-> height,
     data |-> [k \in 0..(width * height * 4 - 1) |->
                 LET i == k \div 4
                     value == CloudValue(random[i + 1])
                 IN  Uint8(IF k = i * 4 + 3 THEN value * 2 ELSE value)]]

\* A running program and one call of createProceduralClouds, Math.random()
\* returning any sequence over Randoms.
InitClouds ==
    /\ RunningProgram
    /\ inputBudget = 0
    /\ cameraDistance = 3000
    /\ rotationX = 0
    /\ rotationY = 0
    /\ lastInteractionTime = 0
    /\ now = StartTime
    /\ pixel = NoPixel
    /\ \E random \in [1..(CloudWidth * CloudHeight) -> Randoms] :
          cloudData = [NoClouds EXCEPT !.examined = TRUE, !.random = random]
cloudOtherVars == <<revision, inputBudget, geometry, pixel, env, initPc, initError, initCalls,
                    resources, listeners, rafPending, canvas, depthTexture, cameraVars,
                    fingers, releasedAt, now, inputs, loaderVars, frameVars>>
CreateProceduralClouds ==
    /\ cloudData.examined
    /\ ~cloudData.created
    /\ LET texture == createProceduralClouds(CloudWidth, CloudHeight, cloudData.random)
       IN  cloudData' = [cloudData EXCEPT !.created = TRUE,
                                          !.width = texture.width,
                                          !.height = texture.height,
                                          !.data = texture.data]
    /\ UNCHANGED cloudOtherVars
NextClouds ==
    \/ CreateProceduralClouds
SpecClouds == InitClouds /\ [][NextClouds]_vars

\* ------------------------------------------------------------ sphere meshes
\* Largest band count of the sphere-mesh calls examined.
MaxBands == 6

\* The vertex loops shared, statement for statement, by createSphere and
\* createSkyboxSphere.  (In all four loops the test of the arrays' length is
\* never true: it makes TLC evaluate the arrays at every iteration instead of
\* building one nested expression per run.)  The inner one: for lon in 0..lonBands, push three
\* position components and two texture coordinates.
RECURSIVE VertexRow(_, _, _, _, _, _)
VertexRow(radius, latBands, lonBands, lat, lon, acc) ==
    IF lon > lonBands \/ Len(acc.positions) < 0 THEN acc
    ELSE LET theta == Quot(lat * Pi, latBands)
             phi == Quot(lon * TwoPi, lonBands)
             x == Mul(Cos(phi), Sin(theta))
             y == Cos(theta)
             z == Mul(Sin(phi), Sin(theta))
         IN  VertexRow(radius, latBands, lonBands, lat, lon + 1,
                [acc EXCEPT
                    !.positions = @ \o <<Mul(radius, x), Mul(radius, y), Mul(radius, z)>>,
                    !.uvs = @ \o <<Scale - Quot(lon * Scale, lonBands),
                                   Quot(lat * Scale, latBands)>>])

\* The outer one: for lat in 0..latBands.
RECURSIVE VertexLoop(_, _, _, _, _)
VertexLoop(radius, latBands, lonBands, lat, acc) ==
    IF lat > latBands \/ Len(acc.positions) < 0 THEN acc
    ELSE LET row == VertexRow(radius, latBands, lonBands, lat, 0, acc)
         IN  VertexLoop(radius, latBands, lonBands, lat + 1,
                [positions |-> <<>> \o row.positions, uvs |-> <<>> \o row.uvs,
                 indices |-> row.indices])

\* The index loops of both functions.  The inner one: for lon in
\* 0..lonBands-1, push the two triangles of the quad.
RECURSIVE IndexRow(_, _, _, _)
IndexRow(lonBands, lat, lon, indices) ==
    IF lon >= lonBands \/ Len(indices) < 0 THEN indices
    ELSE LET first == lat * (lonBands + 1) + lon
             second == first + lonBands + 1
         IN  IndexRow(lonBands, lat, lon + 1,
                indices \o <<first, first + 1, second>>
                        \o <<second, first + 1, second + 1>>)

\* The outer one: for lat in 0..latBands-1.
RECURSIVE IndexLoop(_, _, _, _)
IndexLoop(latBands, lonBands, lat, indices) ==
    IF lat >= latBands \/ Len(indices) < 0 THEN indices
    ELSE IndexLoop(latBands, lonBands, lat + 1,
                   <<>> \o IndexRow(lonBands, lat, 0, indices))

\* A different createSphere: its index loops run one latitude band too far.
createSphereExtraBand(radius, latBands, lonBands) ==
    LET vertices == VertexLoop(radius, latBands, lonBands, 0, EmptyMesh)
    IN  [positions |-> vertices.positions,
         uvs |-> vertices.uvs,
         indices |-> IndexLoop(latBands + 1, lonBands, 0, <<>>)]

createSphere(radius, latBands, lonBands) ==
    LET vertices == VertexLoop(radius, latBands, lonBands, 0, EmptyMesh)
    IN  [positions |-> vertices.positions,
         uvs |-> vertices.uvs,
         indices |-> IndexLoop(latBands, lonBands, 0, <<>>)]

createSkyboxSphere(radius, segments) ==
    LET vertices == VertexLoop(radius, segments, segments, 0, EmptyMesh)
        indices == IndexLoop(segments, segments, 0, <<>>)
    IN  [positions |-> vertices.positions,
         uvs |-> vertices.uvs,
         indices |-> indices,
         count |-> Len(indices)]

\* The calls examined: either function, radius 1 or 100, 1..MaxBands bands.
SphereCalls ==
    {[fn |-> "createSphere", radius |-> r, latBands |-> a, lonBands |-> b,
      returned |-> FALSE, mesh |-> EmptyMesh] :
        r \in {Scale, 100 * Scale}, a \in 1..MaxBands, b \in 1..MaxBands}
    \cup
    {[fn |-> "createSkyboxSphere", radius |-> r, latBands |-> n, lonBands |-> n,
      returned |-> FALSE, mesh |-> EmptyMesh] :
        r \in {Scale, 100 * Scale}, n \in 1..MaxBands}

InitSphere ==
    /\ revision = "main"
    /\ inputBudget = 0
    /\ InitRest
    /\ env = [canvas |-> TRUE, gpu |-> TRUE, adapter |-> TRUE, device |-> TRUE]
    /\ geometry \in SphereCalls

\* Every variable but geometry.
sphereOtherVars == <<revision, inputBudget, pixel, cloudData, env, initPc, initError, initCalls, resources,
                     listeners, rafPending, canvas, depthTexture, cameraVars, fingers, releasedAt, now,
                     inputs, loaderVars, frameVars>>

CreateSphere ==
    /\ geometry.fn = "createSphere"
    /\ ~geometry.returned
    /\ geometry' = [geometry EXCEPT
                       !.returned = TRUE,
                       !.mesh = createSphere(geometry.radius, geometry.latBands,
                                             geometry.lonBands)]
    /\ UNCHANGED sphereOtherVars

CreateSkyboxSphere ==
    /\ geometry.fn = "createSkyboxSphere"
    /\ ~geometry.returned
    /\ geometry' = [geometry EXCEPT
                       !.returned = TRUE,
                       !.mesh = createSkyboxSphere(geometry.radius, geometry.latBands)]
    /\ UNCHANGED sphereOtherVars

NextSphere ==
    \/ CreateSphere
    \/ CreateSkyboxSphere
SpecSphere == InitSphere /\ [][NextSphere]_vars

\* ------------------------------------------------------------------ claims
Rendered == lastFrame.kind = "rendered"
DrawTargets(log) ==
    LET draws == SelectSeq(log, LAMBDA c : c.op = "draw")
    IN  [k \in 1..Len(draws) |-> draws[k].target]
\* The position of the only command `op` of a log that holds exactly one.
IndexOf(log, op) == CHOOSE i \in Indices(log, op) : TRUE

\* C1: every rendered frame records its draws in the order skybox, starfield,
\* sun, planet, flare, all of them inside one render pass of one command
\* encoder, and submits once, after the pass has ended, as the last GPU call of
\* the frame; this holds in every state that input events and texture-load
\* completions can lead to.
C1_DrawOrderFixed ==
    Rendered =>
        LET log == lastFrame.log
        IN  /\ DrawTargets(log) = <<"skybox", "starfield", "sun", "planet", "flare">>
            /\ Count(log, "createCommandEncoder") = 1
            /\ Count(log, "beginRenderPass") = 1
            /\ Count(log, "end") = 1
            /\ Count(log, "submit") = 1
            /\ IndexOf(log, "createCommandEncoder") < IndexOf(log, "beginRenderPass")
            /\ \A i \in Indices(log, "draw") :
                  IndexOf(log, "beginRenderPass") < i /\ i < IndexOf(log, "end")
            /\ IndexOf(log, "end") < IndexOf(log, "submit")
            /\ \A i \in 1..Len(log) :
                  i > IndexOf(log, "submit") => log[i].op = "requestAnimationFrame"

\* A second frame rendered after a wheel event moved the camera and after both
\* texture loads completed.
C1_Witness ==
    /\ Rendered
    /\ lastFrame.frame = 2
    /\ ubuf["planet"].data.cameraPos[3] # 3000
    /\ lastFrame.drawn[1].textures = <<"milkyWay">>
    /\ lastFrame.drawn[4].textures[1] = "earthDay"

\* C2: in every state the pitch lies in [-pi/2, pi/2] and the camera distance
\* in [1.5, 10], whatever mouse, wheel and touch events were delivered.
C2_CameraWithinLimits ==
    /\ -HalfPi <= rotationX /\ rotationX <= HalfPi
    /\ MinDistance <= cameraDistance /\ cameraDistance <= MaxDistance

\* A drag has pushed the pitch onto its limit and a wheel event has pushed the
\* distance onto its upper limit.
C2_Witness ==
    /\ inputs = 3
    /\ rotationX = HalfPi
    /\ cameraDistance = MaxDistance

\* C3: in every rendered frame each pass's uniform buffer is written before
\* that pass's draw is recorded, and when the frame's commands execute the
\* buffer of every pass holds the values written in that same frame.
C3_UniformsWrittenBeforeDraw ==
    Rendered =>
        /\ Len(lastFrame.drawn) = Cardinality(Passes)
        /\ \A k \in 1..Len(lastFrame.drawn) :
              /\ lastFrame.drawn[k].writtenBefore
              /\ lastFrame.drawn[k].uniformFrame = lastFrame.frame
        /\ \A p \in Passes :
              \E i \in Indices(lastFrame.log, "writeBuffer") :
                 /\ lastFrame.log[i].target = p
                 /\ i < IndexOf(lastFrame.log, "submit")
                 /\ \E j \in Indices(lastFrame.log, "draw") :
                       lastFrame.log[j].target = p /\ i < j

\* The second rendered frame: every buffer held the first frame's values when
\* it began.
C3_Witness ==
    /\ Rendered
    /\ lastFrame.frame = 2
    /\ \A p \in Passes : ubuf[p].frame = 2


\* A texture request that was issued and has not settled.
TextureRequestPending ==
    \/ mwPc \in {"fetch", "blob", "bitmap"}
    \/ earthPc \in {"earthFetch", "earthBlob", "earthBitmap",
                    "cloudFetch", "cloudBlob", "cloudBitmap"}

\* C4: texture loading never blocks the render loop: while a texture request
\* is pending, however long it stays so, the first frame has been scheduled
\* (a frame callback is registered or frames have already run).
C4_LoadsNeverBlockFrames ==
    TextureRequestPending => rafPending > 0

\* A step of the frame callback that renders.
RenderStep == frameCount' = frameCount + 1

\* C5: a frame rendered once a load has completed draws with the loaded
\* texture: the skybox with the Milky Way once milkyWayTexture holds it, the
\* planet with the colour map once earthTexture holds it, whatever the state
\* of the cloud request.
C5_FrameDrawsLoadedTexture ==
    [][RenderStep =>
          /\ milkyWayTexture = "milkyWay" => lastFrame'.drawn[1].textures[1] = "milkyWay"
          /\ earthTexture = "earthDay" => lastFrame'.drawn[4].textures[1] = "earthDay"]_vars

\* C6: a rejected texture load never leaves its loader: the only rejection
\* nobody handles is init()'s own; loadEarthAssets can stop nowhere but at its
\* end; after a colour-map failure it is at the cloud request or beyond it;
\* and at its end the planet bind group has been rebuilt from the current
\* colour and cloud textures.
C6_LoadFailuresContained ==
    /\ unhandled \subseteq {"init"}
    /\ earthPc \in {"idle", "earthFetch", "earthBlob", "earthBitmap",
                    "cloudFetch", "cloudBlob", "cloudBitmap", "done"}
    /\ mwPc \in {"idle", "fetch", "blob", "bitmap", "done", "failed"}
    /\ earthPc = "done" =>
          bindGroup = [color |-> earthTexture, clouds |-> cloudTexture]

\* The Milky Way load and the colour-map load both failed; the cloud imagery
\* was still requested and loaded and the bind group rebuilt with it, and a
\* frame drew with that bind group.
C6_Witness ==
    /\ mwPc = "failed"
    /\ earthTexture = "placeholder"
    /\ earthPc = "done"
    /\ bindGroup = [color |-> "placeholder", clouds |-> "cloudImagery"]
    /\ Rendered
    /\ lastFrame.drawn[4].textures = <<"placeholder", "cloudImagery">>

\* C7: once loadEarthAssets has finished without the cloud imagery, the cloud
\* texture and the one the planet bind group names are the procedural clouds,
\* never the placeholder.
C7_NoImageryMeansProcedural ==
    (earthPc = "done" /\ cloudTexture # "cloudImagery") =>
        cloudTexture = "procedural" /\ bindGroup.clouds = "procedural"

\* A step of the frame callback, rendering or skipping.
FrameStep == lastFrame' # lastFrame

\* C8 (as stated): the frame callback leaves yaw, pitch and distance as they
\* were.
C8_FrameLeavesCameraAlone ==
    [][FrameStep => UNCHANGED <<rotationY, rotationX, cameraDistance>>]_vars

\* C8 (amended): the frame callback leaves pitch, distance, the drag and pinch
\* flags, the last pointer positions and the interaction time as they were; it
\* changes the yaw in one case only: a rendering frame that finds more than
\* autoRotateDelay ms since the last interaction and neither a drag nor a pinch
\* in progress adds autoRotateSpeed to it.
C8_FrameWritesOnlyIdleYaw ==
    [][FrameStep =>
          /\ UNCHANGED <<rotationX, cameraDistance, isDragging, isPinching,
                         lastMouseX, lastMouseY, lastTouchDistance,
                         lastInteractionTime>>
          /\ rotationY' =
                IF /\ RenderStep
                   /\ now - lastInteractionTime > autoRotateDelay
                   /\ ~isDragging
                   /\ ~isPinching
                THEN rotationY + autoRotateSpeed
                ELSE rotationY]_vars

\* Two frames were rendered around a drag (drags move the yaw by multiples of
\* 10): the first, before any interaction, advanced the yaw by autoRotateSpeed;
\* the second, later than autoRotateDelay after the drag's last event and with
\* the button still down, left it alone.
C8_Witness ==
    /\ frameCount = 2
    /\ isDragging
    /\ lastInteractionTime = StartTime
    /\ ubuf["sun"].data.time = ClockStep
    /\ rotationX # 0
    /\ rotationY % 10 = autoRotateSpeed

\* C9 (the divisions): a frame rendered while the canvas has a zero width or
\* height performs no division by zero: not in the MVP computation, not in the
\* flare's aspect ratio, not in projectToScreen.
C9_NoDivisionByZero ==
    (Rendered /\ (lastFrame.canvas.width = 0 \/ lastFrame.canvas.height = 0)) =>
        \A i \in 1..Len(lastFrame.divisors) : lastFrame.divisors[i].divisor # 0

\* C10: when the canvas, navigator.gpu or the adapter is missing, init() never
\* gets past its checks; once init() has aborted no GPU resource or texture
\* exists, no listener is registered, no frame callback is pending or has run,
\* no loader has started, and nothing further happens; init() is called once.
C10_AbortLeavesNothing ==
    /\ initCalls <= 1
    /\ (~env.canvas \/ ~env.gpu \/ ~env.adapter) =>
          initPc \in {"notStarted", "awaitAdapter", "aborted"}
    /\ initPc \in {"notStarted", "awaitAdapter", "awaitDevice", "aborted"} =>
          /\ resources = {}
          /\ textures = {}
          /\ ~listeners
          /\ ~depthTexture.defined
          /\ rafPending = 0
          /\ lastFrame = NoFrame
          /\ mwPc = "idle" /\ earthPc = "idle"
    /\ initPc = "aborted" => ~ENABLED Next

\* init() has aborted on a missing adapter, after its one await.
C10_Witness ==
    /\ initPc = "aborted"
    /\ initError = "No GPU adapter found"
    /\ initCalls = 1


\* The image of a point under a column-major 4x4 matrix (w = 1).
ApplyToPoint(m, p) ==
    <<Mul(m[1], p[1]) + Mul(m[5], p[2]) + Mul(m[9], p[3]) + m[13],
      Mul(m[2], p[1]) + Mul(m[6], p[2]) + Mul(m[10], p[3]) + m[14],
      Mul(m[3], p[1]) + Mul(m[7], p[2]) + Mul(m[11], p[3]) + m[15]>>
\* Angles whose sine and cosine are -1, 0 or 1.
AxisAligned(angle) == angle % HalfPi = 0
\* The camera position a pass's uniforms hold is the point the current view
\* matrix maps to the view-space origin.
CameraPosMatchesView(pass) ==
    ApplyToPoint(ViewMatrix(rotationX, rotationY, cameraDistance),
                 ubuf[pass].data.cameraPos) = <<0, 0, 0>>

\* C11: after a rendered frame with the yaw and pitch at axis-aligned angles,
\* the camera position in the planet pass's uniforms and the one in the sun
\* pass's uniforms are both mapped to the view-space origin by the frame's view
\* matrix Translate(0, 0, -distance) * RotationX(pitch) * RotationY(yaw).
C11_CameraPositionMatchesView ==
    (Rendered /\ AxisAligned(rotationX) /\ AxisAligned(rotationY)) =>
        CameraPosMatchesView("planet") /\ CameraPosMatchesView("sun")


\* The clip-space w, the normalized device z and the screen position of the
\* sun the last frame drew, recomputed from the uniforms that frame wrote.
SunClipW ==
    LET m == ubuf["planet"].data.mvp
        p == ubuf["sun"].data.sunWorldPos
    IN  Mul(p[1], m[4]) + Mul(p[2], m[8]) + Mul(p[3], m[12]) + m[16]
SunNdc ==
    LET c == ApplyToPoint(ubuf["planet"].data.mvp, ubuf["sun"].data.sunWorldPos)
    IN  [x |-> JsDiv(c[1], SunClipW), y |-> JsDiv(c[2], SunClipW),
         z |-> JsDiv(c[3], SunClipW)]
SunOnScreen ==
    /\ SunClipW > 0
    /\ JsBetween(SunNdc.z, -Scale, Scale)
    /\ JsBetween(HalfOfOnePlus(SunNdc.x), -300, 1300)
    /\ JsBetween(HalfOfOneMinus(SunNdc.y), -300, 1300)
\* viewDir . sunDir for the camera of the last frame.
SunAlignment ==
    LET sunDir == ubuf["planet"].data.sunDir
    IN  Mul(sunDir[1], Mul(Sin(rotationY), Cos(rotationX)))
        + Mul(sunDir[2], -Sin(rotationX))
        + Mul(sunDir[3], Mul(Cos(rotationY), Cos(rotationX)))

\* C12: the intensity a rendered frame writes into the flare uniforms is 0 when
\* the projected sun has w <= 0, a normalized device z outside (-1, 1) or a
\* screen position outside (-0.3, 1.3) on either axis; otherwise it is
\* sqrt(max(0, viewDir . sunDir)); in every frame it lies in [0, 1].
C12_FlareIntensity ==
    Rendered =>
        /\ ubuf["flare"].data.intensity =
              IF SunOnScreen THEN Isqrt(Max(0, SunAlignment) * Scale) ELSE 0
        /\ 0 <= ubuf["flare"].data.intensity
        /\ ubuf["flare"].data.intensity <= Scale

\* A frame drew the sun on the screen, with the camera turned toward it: the
\* flare is lit.
C12_Witness ==
    /\ Rendered
    /\ SunOnScreen
    /\ ubuf["flare"].data.intensity > 0

\* A frame found the sun off the screen while the viewing direction still had
\* a positive component along the sun's: the flare is dark.
C12_WitnessDark ==
    /\ Rendered
    /\ ~SunOnScreen
    /\ SunAlignment > 0
    /\ ubuf["flare"].data.intensity = 0


\* C13: once resize() has run, the canvas is at most maxTextureDimension2D wide
\* and high; whenever a depth texture exists, and so in every frame that
\* renders, its dimensions are the canvas's; and a step changes the depth
\* texture exactly when it changes the canvas size.
C13_DepthTextureFollowsCanvas ==
    /\ [](/\ initPc = "running" =>
                canvas.width <= MaxTextureSize /\ canvas.height <= MaxTextureSize
          /\ depthTexture.defined =>
                depthTexture.width = canvas.width /\ depthTexture.height = canvas.height
          /\ Rendered => depthTexture.defined)
    /\ [][(canvas' # canvas) <=> (depthTexture' # depthTexture)]_vars

\* A frame rendered on a canvas that resize() clamped to the device limit,
\* with the depth texture reallocated at that size.
C13_Witness ==
    /\ Rendered
    /\ canvas.width = MaxTextureSize
    /\ depthTexture = [defined |-> TRUE, width |-> MaxTextureSize, height |-> canvas.height]
    /\ lastFrame.canvas = canvas


\* A sphere-mesh call has returned.
MeshBuilt == geometry.returned

\* C14: for 1 <= latBands, lonBands, createSphere, and createSkyboxSphere with
\* latBands = lonBands = segments, return (latBands + 1) * (lonBands + 1)
\* vertices of three components, as many UV pairs, and latBands * lonBands * 6
\* indices, every one of them a vertex number below the vertex count.
C14_SphereMeshCounts ==
    MeshBuilt =>
        LET mesh == geometry.mesh
            vertexCount == (geometry.latBands + 1) * (geometry.lonBands + 1)
        IN  /\ Len(mesh.positions) = 3 * vertexCount
            /\ Len(mesh.uvs) = 2 * vertexCount
            /\ Len(mesh.indices) = geometry.latBands * geometry.lonBands * 6
            /\ \A k \in 1..Len(mesh.indices) :
                  0 <= mesh.indices[k] /\ mesh.indices[k] < vertexCount

\* createSphere has returned the mesh of 2 x 3 bands: 12 vertices, 36 indices,
\* the last of them the last vertex.
C14_Witness ==
    /\ MeshBuilt
    /\ geometry.fn = "createSphere"
    /\ geometry.latBands = 2
    /\ geometry.lonBands = 3
    /\ Len(geometry.mesh.indices) = 36
    /\ geometry.mesh.indices[36] = 11


\* C15: after a frame rendered with yaw = 0 and pitch = 0 on a canvas of
\* non-zero size, the MVP matrix written to every pass is exactly
\* multiplyMat4(proj, translationMatrix(0, 0, -cameraDistance)), both rotation
\* matrices being the identity, for every distance examined.
C15_NoRotationAtRest ==
    (/\ Rendered
     /\ rotationX = 0
     /\ rotationY = 0
     /\ lastFrame.canvas.width # 0
     /\ lastFrame.canvas.height # 0) =>
        LET aspect == Quot(lastFrame.canvas.width * Scale, lastFrame.canvas.height)
            expected == multiplyMat4(ProjectionMatrix(aspect),
                                     translationMatrix(0, 0, -cameraDistance))
        IN  /\ rotationXMatrix(rotationX) = IdentityMatrix
            /\ rotationYMatrix(rotationY) = IdentityMatrix
            /\ \A p \in {"planet", "skybox", "starfield", "sun"} :
                  ubuf[p].data.mvp = expected

\* A frame rendered with the camera at rest and at the largest distance.
C15_Witness ==
    /\ Rendered
    /\ rotationX = 0
    /\ rotationY = 0
    /\ cameraDistance = MaxDistance
    /\ ubuf["planet"].data.mvp[15] # 0


\* C16: a wheel event with a negative deltaY, and a pinch move that spreads
\* the two fingers, delivered while cameraDistance is 1.5, leave it 1.5; a wheel
\* event with a positive deltaY delivered while it is 10 leaves it 10.
C16_ZoomStopsAtLimits ==
    [][/\ \A deltaY \in WheelDeltas :
             /\ (WheelBy(deltaY) /\ deltaY < 0 /\ cameraDistance = MinDistance)
                   => cameraDistance' = MinDistance
             /\ (WheelBy(deltaY) /\ deltaY > 0 /\ cameraDistance = MaxDistance)
                   => cameraDistance' = MaxDistance
       /\ \A touches \in TouchLists :
             (/\ TouchMoveWith(touches)
              /\ Len(touches) = 2
              /\ isPinching
              /\ getTouchDistance(touches) > lastTouchDistance
              /\ cameraDistance = MinDistance)
                => cameraDistance' = MinDistance]_vars

\* The first frame, before the clock advanced, found the distance already at
\* 1.5 after one wheel event; the second event came after the clock advanced,
\* set the interaction time and no flag, so it was a wheel event too, and the
\* distance is still 1.5: its deltaY was the negative one.
C16_Witness ==
    /\ inputs = 2
    /\ frameCount = 1
    /\ ubuf["sun"].data.time = 0
    /\ ubuf["planet"].data.cameraPos[3] = MinDistance
    /\ now = StartTime + ClockStep
    /\ lastInteractionTime = now
    /\ ~isDragging
    /\ ~isPinching
    /\ fingers = 0
    /\ cameraDistance = MinDistance


\* The UTC time of day of the clock, in whole seconds.
SecondOfDay == (now \div 1000) % (24 * 3600)

\* C17: for a clock at a whole second of a UTC day, the subsolar longitude a
\* rendered frame computes is 180 - 15 * (hours + minutes/60 + seconds/3600)
\* degrees (in arc-seconds: 648000 - 15 * second of day); it lies in
\* (-180, 180] degrees, is 0 at 12:00:00 and 180 at 00:00:00, and is the one
\* computed for the same time of day on 1 January 1970.
C17_SolarLongitude ==
    Rendered =>
        LET lon == lastFrame.subsolar.lon
        IN  /\ lon = ArcSecPerHalfTurn - 15 * SecondOfDay
            /\ -ArcSecPerHalfTurn < lon /\ lon <= ArcSecPerHalfTurn
            /\ SecondOfDay = 12 * 3600 => lon = 0
            /\ SecondOfDay = 0 => lon = ArcSecPerHalfTurn
            /\ lon = calculateSunPosition(now % MsPerDay).lon

\* A frame rendered at 23:59:59 UTC of the 21st day: the longitude is 15
\* arc-seconds inside the lower end of the range.
C17_Witness ==
    /\ Rendered
    /\ now = 20 * MsPerDay + (23 * 3600 + 59 * 60 + 59) * 1000
    /\ lastFrame.subsolar.lon = 15 - ArcSecPerHalfTurn


\* More than autoRotateDelay ms since the last recorded interaction, and no
\* drag or pinch in progress.
CameraIdle ==
    /\ now - lastInteractionTime > autoRotateDelay
    /\ ~(isDragging \/ isPinching)

FrameSoonAfterRelease ==
    /\ Frame
    /\ releasedAt # NeverReleased
    /\ now - releasedAt < autoRotateDelay

\* C19: a frame that runs less than autoRotateDelay ms after the user released
\* the mouse button (mouseup, mouseleave) or lifted the last finger (touchend)
\* leaves the yaw as it was, however long before the release the last
\* recorded interaction took place.
C19_ReleaseRestartsIdleDelay ==
    [][FrameSoonAfterRelease => rotationY' = rotationY]_vars


\* C20: every run of the frame callback, rendering or returning early for want
\* of a depth texture, calls requestAnimationFrame once; so from the moment
\* init() has registered the first callback there is exactly one callback
\* pending at any time: the loop never runs dry and never doubles.
C20_FrameLoopKeepsOneCallback ==
    /\ [](rafPending <= 1)
    /\ [](initPc = "running" => rafPending = 1)
    /\ [][Frame =>
             /\ Count(lastFrame'.log, "requestAnimationFrame") = 1
             /\ rafPending' = rafPending]_vars

\* The frame callback has just returned early, some time after start-up, and
\* a callback is pending again.
C20_Witness ==
    /\ initPc = "running"
    /\ lastFrame.kind = "skipped"
    /\ ~depthTexture.defined
    /\ now > StartTime
    /\ rafPending = 1


\* The depths of a pass's fragments on the pixel, and the nearest of a set of
\* depths and the cleared depth.
DepthsOf(pass) == {pixel.fragments[pass][i] : i \in 1..Len(pixel.fragments[pass])}
Nearest(zs) == CHOOSE z \in zs \cup {DepthOne} : \A y \in zs \cup {DepthOne} : z <= y
InColour(pass) == \E i \in 1..Len(pixel.colour) : pixel.colour[i] = pass
\* Some planet fragment is nearer than every sun fragment and than the far plane.
PlanetInFront == Nearest(DepthsOf("planet")) < Nearest(DepthsOf("sun"))

\* C21: at a pixel of a frame the depth starts at 1.0 and only sun and planet
\* fragments write it, each when it is nearer ('less') than what is stored, so
\* the depth ends at the nearest of them; skybox, star and flare fragments
\* never write it.  Whatever skybox and star fragments cover the pixel, a sun
\* fragment nearer than the far plane shows unless a planet fragment is in
\* front of it, and a planet fragment in front of the sun (or alone) leaves
\* the planet's colour, without the sun's and without the sky's, under the
\* flare.
C21_DepthOrdersSunAndPlanet ==
    pixel.drawn =>
        /\ pixel.depth = Nearest(DepthsOf("sun") \cup DepthsOf("planet"))
        /\ \A i \in 1..Len(pixel.depthWrites) : pixel.depthWrites[i] \in {"sun", "planet"}
        /\ InColour("planet") <=> PlanetInFront
        /\ InColour("sun") <=> (Nearest(DepthsOf("sun")) < DepthOne /\ ~PlanetInFront)
        /\ PlanetInFront =>
              /\ pixel.colour[1] = "planet"
              /\ \A i \in 2..Len(pixel.colour) : pixel.colour[i] = "flare"

\* The pixel is covered by skybox, stars, two sun fragments and a nearer planet
\* fragment: the planet's colour alone is left.
C21_Witness ==
    /\ pixel.drawn
    /\ pixel.fragments.skybox # <<>>
    /\ pixel.fragments.starfield # <<>>
    /\ pixel.fragments.sun = <<99995, 50000>>
    /\ pixel.fragments.planet = <<0>>
    /\ pixel.fragments.flare = <<>>
    /\ pixel.colour = <<"planet">>
    /\ pixel.depth = 0


\* A texture a bind group may name: the 1x1 placeholder, or one that has been
\* created with its image upload enqueued.
Whole(tex) == tex = "placeholder" \/ tex \in textures

\* C22: however texture-load completions interleave with frames, the skybox
\* and planet bind groups name only whole textures from the moment they are
\* created, and so does every bind group a rendered frame drew with.
C22_FramesSeeWholeTextures ==
    /\ Whole(skyboxBindGroup.tex)
    /\ Whole(bindGroup.color)
    /\ Whole(bindGroup.clouds)
    /\ Rendered =>
          \A k \in 1..Len(lastFrame.drawn) :
             \A i \in 1..Len(lastFrame.drawn[k].textures) :
                Whole(lastFrame.drawn[k].textures[i])

\* A frame was rendered between two completions: the planet drew with the day
\* texture and the cloud imagery while the Milky Way request was still being
\* decoded and the skybox drew with the placeholder.
C22_Witness ==
    /\ Rendered
    /\ mwPc = "bitmap"
    /\ lastFrame.drawn[1].textures = <<"placeholder">>
    /\ lastFrame.drawn[4].textures = <<"earthDay", "cloudImagery">>


\* C23: the skybox bind group changes only in the step that ends loadMilkyWay
\* and the planet bind group only in the step that ends loadEarthAssets; each
\* function ends once, so each bind group is replaced at most once; and a
\* texture slot that has left the placeholder never names it again.
C23_BindGroupsReplacedOnce ==
    [][/\ skyboxBindGroup' # skyboxBindGroup => (mwPc # "done" /\ mwPc' = "done")
       /\ bindGroup' # bindGroup => (earthPc # "done" /\ earthPc' = "done")
       /\ mwPc = "done" => mwPc' = "done"
       /\ earthPc = "done" => earthPc' = "done"
       /\ skyboxBindGroup.tex # "placeholder" => skyboxBindGroup'.tex # "placeholder"
       /\ bindGroup.color # "placeholder" => bindGroup'.color # "placeholder"
       /\ bindGroup.clouds # "placeholder" => bindGroup'.clouds # "placeholder"]_vars

\* Both loaders have finished and a frame has drawn with the replaced bind
\* groups: the Milky Way, the day texture and the procedural clouds.
C23_Witness ==
    /\ mwPc = "done"
    /\ earthPc = "done"
    /\ skyboxBindGroup = [tex |-> "milkyWay"]
    /\ bindGroup = [color |-> "earthDay", clouds |-> "procedural"]
    /\ Rendered
    /\ lastFrame.drawn[1].textures = <<"milkyWay">>
    /\ lastFrame.drawn[4].textures = <<"earthDay", "procedural">>


\* C24: once init() has made its resize() call (it is running) a depth texture
\* exists, and no frame callback takes the skip branch.
C24_FirstFrameRenders ==
    /\ initPc = "running" => depthTexture.defined
    /\ lastFrame.kind # "skipped"


\* C25: in every state that mouse and touch events lead to, at most one of
\* isDragging and isPinching is set.
C25_OneGestureAtATime == ~(isDragging /\ isPinching)


\* A touchmove event carrying n touches.
TouchMoveOf(n) == \E touches \in TouchLists : Len(touches) = n /\ TouchMoveWith(touches)

\* C26: a wheel event and a two-finger touchmove leave yaw and pitch as they
\* were; a mousemove and a one-finger touchmove leave cameraDistance as it was.
C26_GesturesKeepToTheirParameters ==
    [][/\ (Wheel \/ TouchMoveOf(2)) => UNCHANGED <<rotationX, rotationY>>
       /\ (MouseMove \/ TouchMoveOf(1)) => UNCHANGED cameraDistance]_vars

\* Two fingers landed on one point and moved apart, before any frame: the
\* pinch has brought the distance to its lower limit, and yaw and pitch are
\* still 0.
C26_Witness ==
    /\ inputs = 2
    /\ frameCount = 0
    /\ fingers = 2
    /\ isPinching
    /\ lastTouchDistance = 500
    /\ cameraDistance = MinDistance
    /\ rotationX = 0
    /\ rotationY = 0


\* What a mousemove could write.
DragState == <<rotationY, rotationX, cameraDistance, lastMouseX, lastMouseY,
               lastInteractionTime>>

\* C27 (as stated): a mousemove received while isDragging is false changes
\* none of yaw, pitch, distance, last pointer position and interaction time;
\* mouseup and mouseleave leave isDragging false; and it stays false, so that
\* mousemoves keep having no effect, until the next mousedown.
C27_IdleMouseMoveUntilMouseDown ==
    [][/\ (MouseMove /\ ~isDragging) => UNCHANGED DragState
       /\ (MouseUp \/ MouseLeave) => ~isDragging'
       /\ (~isDragging /\ isDragging') => MouseDown]_vars

\* C27 (amended): the same, but isDragging stays false until the next
\* mousedown, the next touchstart with one touch, or the next touchend that
\* leaves one touch.
C27_IdleMouseMoveUntilDragStarts ==
    [][/\ (MouseMove /\ ~isDragging) => UNCHANGED DragState
       /\ (MouseUp \/ MouseLeave) => ~isDragging'
       /\ (~isDragging /\ isDragging') =>
             \/ MouseDown
             \/ (TouchStart /\ fingers' = 1)
             \/ (TouchEnd /\ fingers' = 1)]_vars

\* The button went down on (300, 400) and up again, and a third mouse event
\* followed (a mousemove among them), before any frame: nothing has moved.
C27_Witness ==
    /\ inputs = 3
    /\ frameCount = 0
    /\ fingers = 0
    /\ ~isDragging
    /\ releasedAt # NeverReleased
    /\ lastMouseX = 300
    /\ lastMouseY = 400
    /\ rotationX = 0
    /\ rotationY = 0
    /\ cameraDistance = 3000


\* The yaw less 0.01 rad per pixel of the last recorded pointer x: the yaw the
\* drag would show with the pointer back at x = 0.
DragYaw == rotationY - 10 * lastMouseX

\* C28: mousedown records the pointer's x and leaves the yaw alone; while the
\* button is down every mousemove, every frame callback and the mouseup keep
\* yaw - 0.01 * (recorded x) as it was.  So from mousedown to mouseup the yaw
\* changes by 0.01 * (x of the last mousemove - x at mousedown), however the
\* motion is split into events and whatever frames run in between.
C28_DragYawTelescopes ==
    [][/\ MouseDown => rotationY' = rotationY
       /\ (isDragging /\ (MouseMove \/ Frame \/ MouseUp)) => DragYaw' = DragYaw]_vars

\* A drag from x = 0 to x = 300 with a frame rendered 2500 ms after its last
\* event, the button still down, and the release after it: the yaw is
\* 0.01 * 300 rad, auto-rotation has added nothing.
C28_Witness ==
    /\ inputs = 3
    /\ ~isDragging
    /\ fingers = 0
    /\ frameCount = 1
    /\ ubuf["sun"].data.time = ClockStep
    /\ lastInteractionTime = StartTime
    /\ releasedAt = StartTime + ClockStep
    /\ lastMouseX = 300
    /\ rotationY = 3000

\* clamp((distance - 1.5) / 2.0, 0, 1) in thousandths, case by case.
ClampedOpacity(distance) ==
    IF distance <= 1500 THEN 0
    ELSE IF distance >= 3500 THEN Scale
    ELSE ((distance - 1500) * Scale) \div 2000

\* C29: after every rendered frame the cloudOpacity member of the uniforms
\* the planet pass draws with equals clamp((cameraDistance - 1.5) / 2.0, 0, 1):
\* it lies in [0, 1], is 0 at distance 1.5 and 1 from distance 3.5 on.
C29_PlanetPassCloudOpacity ==
    Rendered =>
        LET opacity == UniformScalar(ubuf["planet"].data, "cloudOpacity")
        IN  /\ opacity = ClampedOpacity(cameraDistance)
            /\ opacity \in 0..Scale
            /\ cameraDistance = MinDistance => opacity = 0
            /\ cameraDistance >= 3500 => opacity = Scale

\* The four bytes of texel i of the procedural cloud texture.
Texel(i) == [c \in 0..3 |-> cloudData.data[i * 4 + c]]

\* C30: the procedural cloud texture holds four bytes per texel, every byte
\* within 0..255; in every texel red, green and blue are one value, 0 or 100,
\* and alpha is twice that value, 0 or 200: no byte has wrapped around.
C30_CloudTexelBytes ==
    cloudData.created =>
        /\ DOMAIN cloudData.data = 0..(cloudData.width * cloudData.height * 4 - 1)
        /\ \A k \in DOMAIN cloudData.data : cloudData.data[k] \in 0..255
        /\ \A i \in 0..(cloudData.width * cloudData.height - 1) :
              /\ Texel(i)[0] \in {0, 100}
              /\ Texel(i)[1] = Texel(i)[0]
              /\ Texel(i)[2] = Texel(i)[0]
              /\ Texel(i)[3] = 2 * Texel(i)[0]
              /\ Texel(i)[3] \in {0, 200}

\* A texture with a cloud texel (100, 100, 100, 200) first and a clear texel
\* (0, 0, 0, 0) next to it, Math.random() having returned 0.601 and 0.6.
C30_Witness ==
    /\ cloudData.created
    /\ cloudData.random[1] = 601
    /\ cloudData.random[2] = 600
    /\ Texel(0) = [c \in 0..3 |-> IF c = 3 THEN 200 ELSE 100]
    /\ Texel(1) = [c \in 0..3 |-> 0]

=============================================================================
